---- MODULE Spec2Model ----
(***************************************************************************)
(* Session resource lifecycle of deskcloud-mcp: the Display Manager        *)
(* (app/services/display_manager.py), the Session Manager                  *)
(* (app/services/session_manager.py), the agent runner's task              *)
(* (app/services/agent_runner.py), the cleanup service                     *)
(* (app/services/session_cleanup.py) and the Filesystem Manager            *)
(* (app/services/filesystem_manager.py).                                   *)
(*                                                                         *)
(* All core logic runs as cooperatively scheduled asyncio tasks: a step of *)
(* the model is the code between two suspension points (an awaited store   *)
(* call, an awaited lock, an awaited task).  The record store is an        *)
(* external collaborator: each repository call takes effect as one step.   *)
(*                                                                         *)
(* Specifications:                                                         *)
(*   SpecDisplay    the Display Manager under arbitrary callers            *)
(*   SpecFilesystem the Filesystem Manager under arbitrary callers, with   *)
(*                  files written through the mounted overlays             *)
(*   SpecManagers   both managers side by side: the Display Manager and    *)
(*                  create_filesystem / destroy_filesystem                 *)
(*   Spec           the whole service                                      *)
(*   SpecLifecycle  the whole service around MaxLifecycleRuns executions   *)
(*   SpecMessages   create_session, send_message and the executions        *)
(*   SpecCleanup    the cleanup pass over a batch of sessions, beside      *)
(*                  send_message and the executions                        *)
(*   SpecReclaim    the cleanup pass over a batch of sessions that have    *)
(*                  filesystems                                            *)
(*   SpecEvents     one execution and the consumer of its events           *)
(*   SpecService    the cleanup service from start() to stop(), its loop   *)
(*                  and the passes it makes                                *)
(*   SpecTeardown   create_display, destroy_display and the processes of   *)
(*                  the display                                            *)
(*   SpecEnviron    executions of the sessions of a batch side by side     *)
(*   SpecRecovery   a restart of the server and recover_active_sessions    *)
(*   FairCompletion the request handlers and executions, with the event    *)
(*                  loop resuming what can go on                           *)
(*   FairService    SpecService, with the event loop resuming the loop     *)
(***************************************************************************)
EXTENDS Integers, Sequences, FiniteSets, TLC

(***************************************************************************)
(* Bounds of the model.                                                    *)
(***************************************************************************)
SessionOrder == <<"s1", "s2">>

Sessions == {SessionOrder[i] : i \in DOMAIN SessionOrder}

\* _next_display_num is unbounded in the code; allocation stops here.
MaxDisplayNum == 4

\* Sessions created through create_session in one run of the model.
MaxSessions == 1

\* Executions (AgentRunner instances) started in one run of the model.
MaxRuns == 2

\* Executions started where every operation and the cleanup pass take part.
MaxLifecycleRuns == 1

\* Sessions created where the cleanup pass works through a batch.
MaxBatch == 2

\* create_filesystem calls made for the sessions of such a batch.
MaxFilesystems == 2

\* The clock stops here.
MaxTime == 2

\* settings.session_ttl_seconds, in ticks of the model's clock.
TTL == 1

\* Concurrent request handlers (API routes and MCP tools).
Reqs == {"q1", "q2"}

Runs == 1..MaxRuns

\* Concurrent callers of the Filesystem Manager.
FsCallers == {"c1", "c2"}

\* Files written through the merged roots in one run of the model.
MaxWrites == 2

\* Filesystem Manager calls made by the callers in one run of the model.
MaxCalls == 5

\* Blocks the sampling loop reports in one execution.
MaxEvents == 2

\* Keepalive events one consumer is sent.
MaxKeepalives == 2

\* Loop tasks the cleanup service creates in one run of the server.
MaxLoops == 2

LoopTasks == 1..MaxLoops

\* settings.vnc_base_port
VncBasePort == 5900

\* DisplayManager._kill_process: `for _ in range(10)`
PollAttempts == 10

NoSession == "none"

VARIABLES
    displays,           \* DisplayManager._displays: session -> DisplayInfo
    used_display_nums,  \* DisplayManager._used_display_nums
    next_display_num,   \* DisplayManager._next_display_num
    dm_lock,            \* DisplayManager._lock: the call holding it, or DmFree
    token_file,         \* the lines of DisplayManager.TOKEN_FILE, in order
    dm_result,          \* what the last completed Display Manager call returned
    status,             \* persisted Session.status ("none": no such row)
    messages,           \* persisted Message rows of each session, in order
    last_activity,      \* persisted Session.last_activity
    session_display,    \* persisted Session.display_num (0: NULL)
    now,                \* datetime.utcnow()
    active_sessions,    \* SessionManager._active_sessions
    sm_lock,            \* SessionManager._lock: "free" or the request holding it
    runners,            \* the AgentRunner instances, their tasks and handlers
    num_sends,          \* accepted send_message calls so far
    sm_result,          \* what the last completed cancel_processing call returned
    req,                \* the request handlers in progress
    cleanup,            \* SessionCleanupService._cleanup_expired_sessions
    filesystems,        \* FilesystemManager._filesystems: session -> FilesystemInfo
    fs_lock,            \* FilesystemManager._lock: "free" or the caller holding it
    overlayfs_available,\* FilesystemManager._overlayfs_available (cached probe)
    session_dirs,       \* the directory trees under active_dir, by root path
    snapshots,          \* the archive files under snapshots_dir, by session
    fs_calls,           \* the Filesystem Manager calls in progress
    fs_result,          \* what the last completed Filesystem Manager call returned
    num_calls,          \* Filesystem Manager calls made so far
    num_writes,         \* files written so far
    last_archived,      \* what the upper layer held when it was last archived
    stream,             \* the consumer of SessionManager.iter_events
    service,            \* SessionCleanupService._running and ._task
    loops,              \* the tasks running SessionCleanupService._cleanup_loop
    stop_call,          \* SessionCleanupService.stop(), while it awaits the task
    procs,              \* the processes of each display, as the kernel has them
    teardown,           \* the process loop of destroy_display (lines 279-283)
    orphans,            \* processes started by create_display calls that failed
    environ,            \* os.environ.get("DISPLAY") of the server (0: not set)
    recovery            \* the server's restarts and recover_active_sessions

dm_vars == <<displays, used_display_nums, next_display_num, dm_lock, token_file,
            dm_result>>

db_vars == <<status, messages, last_activity, session_display>>

sm_vars == <<active_sessions, sm_lock, runners, num_sends>>

fs_vars == <<filesystems, fs_lock, overlayfs_available, session_dirs, snapshots,
            fs_calls, fs_result, num_calls, num_writes, last_archived>>

\* What lies beside the managers, the store and the request handlers.
svc_vars == <<service, loops, stop_call>>

\* The server process: its children, its environment and its start.
proc_vars == <<procs, teardown, orphans, environ, recovery>>

\* What lies beside os.environ.
beside_environ == <<stream, svc_vars, procs, teardown, orphans, recovery>>

ext_vars == <<stream, svc_vars, proc_vars>>

vars == <<displays, used_display_nums, next_display_num, dm_lock, token_file,
          dm_result, status, messages, last_activity, session_display, now,
          active_sessions, sm_lock, runners, num_sends, sm_result, req, cleanup,
          filesystems,
          fs_lock, overlayfs_available, session_dirs, snapshots, fs_calls,
          fs_result, num_calls, num_writes, last_archived, ext_vars>>

\* Everything but the Display Manager's own state.
rest_vars == <<status, messages, last_activity, session_display, now, active_sessions,
               sm_lock, runners, num_sends, sm_result, req, cleanup, fs_vars,
               ext_vars>>

\* Everything but the Filesystem Manager's own state.
service_vars == <<dm_vars, db_vars, now, sm_vars, sm_result, req, cleanup, ext_vars>>

\* No DisplayInfo tracked for the session.
NoDisplay == [display_num |-> 0, vnc_port |-> 0]

\* DisplayInfo(session_id, display_num, vnc_port, ...)
DisplayInfo(num, port) == [display_num |-> num, vnc_port |-> port]

\* The lock is free.
DmFree == [op |-> "free", sid |-> NoSession, display_num |-> 0, vnc_port |-> 0,
           caller |-> "none"]

HasDisplay(s) == displays[s] # NoDisplay

HeldNums == {displays[s].display_num : s \in {t \in Sessions : HasDisplay(t)}}

(***************************************************************************)
(* DisplayManager._allocate_display_num: skip the used numbers from the    *)
(* running counter on, take the counter's value, advance the counter.      *)
(***************************************************************************)
RECURSIVE SkipUsed(_, _)
SkipUsed(used, n) == IF n \in used THEN SkipUsed(used, n + 1) ELSE n

\* An allocation that hands out the counter's value without recording it.
AllocateBroken(used, next) ==
    [display_num |-> next, used |-> used, next |-> next]

\* An allocation that hands out the smallest free number, counter or not.
AllocateSmallest(used, next) ==
    LET n == SkipUsed(used, 1)
    IN  [display_num |-> n, used |-> used \cup {n}, next |-> n + 1]

AllocateDisplayNum(used, next) ==
    LET n == SkipUsed(used, next)
    IN  [display_num |-> n, used |-> used \cup {n}, next |-> n + 1]

\* A release that leaves the number in the used set.
ReleaseNothing(used, n) == used

\* DisplayManager._release_display_num
ReleaseDisplayNum(used, n) == used \ {n}

\* vnc_port = settings.vnc_base_port + display_num
VncPortOf(num) == VncBasePort + num

(***************************************************************************)
(* The token file: one line per write, "<session_id>: localhost:<port>",   *)
(* after the header _init_token_file writes.  A line is kept as the        *)
(* session id before its first colon and the port after "localhost:".      *)
(***************************************************************************)
TokenHeader == [sid |-> "#", vnc_port |-> 0]

TokenLine(s, port) == [sid |-> s, vnc_port |-> port]

\* line.startswith(f"{session_id}:")
StartsWithSession(line, s) == line.sid = s

\* A removal that rewrites the file as it was.
RemoveNothing(tf, s) == tf

\* DisplayManager._add_token: append one line.
AddToken(tf, s, port) == Append(tf, TokenLine(s, port))

\* DisplayManager._remove_token: rewrite the file without the session's lines.
RemoveToken(tf, s) == SelectSeq(tf, LAMBDA line : ~StartsWithSession(line, s))

\* No call of the manager has completed yet.
NoResult == [op |-> "none", sid |-> NoSession, value |-> "none"]

\* create_display returned a DisplayInfo / raised RuntimeError;
\* destroy_display returned True / False; likewise for the calls of the
\* Filesystem Manager.
Returned(op, s, value) == [op |-> op, sid |-> s, value |-> value]

(***************************************************************************)
(* The Filesystem Manager's paths and the disk below them.  A path is the  *)
(* sequence of its components under settings.sessions_dir; a directory     *)
(* tree of a session is kept by its root path: whether it exists, the      *)
(* files of its upper directory and whether an overlay is mounted on its   *)
(* merged directory.                                                       *)
(***************************************************************************)
\* Every session's paths are those of the first session.
SharedPaths(s) ==
    [root |-> <<"active", SessionOrder[1]>>,
     upper |-> <<"active", SessionOrder[1], "upper">>,
     merged |-> <<"active", SessionOrder[1], "merged">>]

\* FilesystemManager._get_session_paths
SessionPaths(s) ==
    [root |-> <<"active", s>>,
     upper |-> <<"active", s, "upper">>,
     merged |-> <<"active", s, "merged">>]

\* settings.filesystem_base_dir, the lower layer of every overlay.
BaseDir == <<"base">>

Roots == {<<"active", s>> : s \in Sessions} \cup {BaseDir}

\* The session directory a merged path lies in.
RootOfMerged(merged) == SubSeq(merged, 1, 2)

\* A file, by the order of the writes, and the session whose tool wrote it.
File(k, s) == [name |-> k, by |-> s]

\* No directory tree at the root path.
NoTree == [exists |-> FALSE, upper |-> {}, mounted |-> FALSE]

\* path.mkdir(parents=True, exist_ok=True) for every path of the session.
MakeDirs(dirs, root) == [dirs EXCEPT ![root].exists = TRUE]

\* shutil.rmtree(paths["root"]): the files go; a tree with a mounted overlay
\* keeps its mount point.
RemoveTree(dirs, root) ==
    [dirs EXCEPT ![root] = [exists |-> dirs[root].mounted, upper |-> {},
                            mounted |-> dirs[root].mounted]]

\* mount -t overlay ... merged, having succeeded.
Mount(dirs, root) == [dirs EXCEPT ![root].mounted = TRUE]

\* umount merged
Unmount(dirs, root) == [dirs EXCEPT ![root].mounted = FALSE]

\* No FilesystemInfo tracked for the session.
NoFilesystem == [merged_root |-> <<>>, upper_path |-> <<>>, is_mounted |-> FALSE]

\* FilesystemInfo(session_id, ..., merged_root, upper_path, is_mounted=True)
FilesystemInfo(paths) ==
    [merged_root |-> paths.merged, upper_path |-> paths.upper, is_mounted |-> TRUE]

HasFilesystem(s) == filesystems[s] # NoFilesystem

\* No archive file of that name.
NoArchive == [exists |-> FALSE, files |-> {}]

\* filesystem.tar.zst / filesystem.tar, holding the files tar read.
Archive(files) == [exists |-> TRUE, files |-> files]

\* archive_name = "filesystem.tar.zst" if compress else "filesystem.tar"
ArchiveName(compress) == IF compress THEN "zst" ELSE "tar"

NoSnapshots == [zst |-> NoArchive, tar |-> NoArchive]

\* restore_filesystem: the first of filesystem.tar.zst, filesystem.tar that
\* exists.
FindArchive(snap) ==
    IF snap.zst.exists THEN "zst"
    ELSE IF snap.tar.exists THEN "tar"
    ELSE "none"

\* A Filesystem Manager caller that runs no call.
NoCall == [op |-> "idle", sid |-> NoSession, pc |-> "idle", archive |-> "none"]

\* No ActiveSession entry for the session.
NoActive == [present |-> FALSE, runner |-> 0, is_processing |-> FALSE]

\* ActiveSession(session_id=...): runner None, is_processing False.
NewActive == [present |-> TRUE, runner |-> 0, is_processing |-> FALSE]

\* An AgentRunner that does not exist yet.
NoRunner == [sid |-> NoSession, task |-> "none", outcome |-> "none",
             messages |-> <<>>, handler |-> "none", persist_failed |-> FALSE,
             event_queue |-> <<>>, queued |-> 0, display_env |-> 0,
             original_display |-> 0]

\* An event of the given type, the n-th its runner has put on its queue.
Event(type, n) == [type |-> type, n |-> n]

\* keepalive_event(): made by the consumer, never on a queue.
Keepalive == Event("keepalive", 0)

\* A _queue_event that keeps the event to itself.
QueueNothing(runner, type) == [runner EXCEPT !.queued = @ + 1]

\* AgentRunner._queue_event: put_nowait on the runner's unbounded queue.
QueueEvent(runner, type) ==
    [runner EXCEPT !.event_queue = Append(@, Event(type, runner.queued + 1)),
                   !.queued = @ + 1]

\* Nobody iterates over a runner's events.
NoStream == [pc |-> "idle", run |-> 0, yielded |-> <<>>]

\* A loop task that has not been created; otherwise where the task is
\* suspended, whether Task.cancel() has been called on it, and whether the
\* last tick it went through ended in an error.
NoLoop == [state |-> "none", cancelled |-> FALSE, failed |-> FALSE]

\* The pid attributes of a DisplayInfo, in the order destroy_display goes
\* through them (display_manager.py:280).
KillOrder == <<"vnc_pid", "wm_pid", "xvfb_pid">>

Processes == {KillOrder[i] : i \in DOMAIN KillOrder}

\* No destroy_display is killing processes; otherwise the place in KillOrder,
\* where _kill_process stands, the polls made, and the signals delivered so
\* far by the call (those of the last call stay until the next one begins).
\* The server has been started once and nothing is recovered.
NoRecovery == [pc |-> "none", rows |-> <<>>, restarts |-> 0]

NoTeardown == [idx |-> 0, pc |-> "none", polls |-> 0, signals |-> <<>>]

\* SessionCleanupService.__init__ (session_cleanup.py:56-61)
NotStarted == [running |-> FALSE, task |-> 0]

\* No stop() call awaits a task.
NoStop == [pc |-> "idle", task |-> 0]

\* A request handler that serves nothing.
Idle == [op |-> "idle", sid |-> NoSession, pc |-> "idle", via |-> "none",
         loaded |-> "none", run |-> 0, num |-> 0, history |-> <<>>]

\* No pass in progress; otherwise the sessions read at line 139, those still
\* to come, the one being destroyed and those the pass has logged a failure
\* for (the log of the last pass stays until the next one begins).
NoCleanup == [pc |-> "idle", expired |-> {}, pending |-> {}, cur |-> NoSession,
              failed |-> {}]

UserMessage(k) == [role |-> "user", run |-> k]

AssistantMessage(k) == [role |-> "assistant", run |-> k]

\* SessionManager.is_session_processing
IsSessionProcessing(s) ==
    active_sessions[s].present /\ active_sessions[s].is_processing

\* The validation at the head of SessionManager.send_message, on the session
\* object the caller loaded.
SendNeverRejected(loaded) == FALSE  \* a validation that lets every status pass

SendRejected(loaded) == loaded \in {"processing", "archived"}

\* An execution task that has been started and has not ended.
TaskRunning(r) == runners[r].task \in {"running", "cancelling"}

RunningTasks(s) == {r \in Runs : runners[r].sid = s /\ TaskRunning(r)}

Init ==
    /\ displays = [s \in Sessions |-> NoDisplay]
    /\ used_display_nums = {}
    /\ next_display_num = 1
    /\ dm_lock = DmFree
    /\ token_file = <<TokenHeader>>
    /\ dm_result = NoResult
    /\ status = [s \in Sessions |-> "none"]
    /\ messages = [s \in Sessions |-> <<>>]
    /\ last_activity = [s \in Sessions |-> 0]
    /\ session_display = [s \in Sessions |-> 0]
    /\ now = 0
    /\ active_sessions = [s \in Sessions |-> NoActive]
    /\ sm_lock = "free"
    /\ sm_result = NoResult
    /\ runners = [r \in Runs |-> NoRunner]
    /\ num_sends = 0
    /\ req = [q \in Reqs |-> Idle]
    /\ cleanup = NoCleanup
    /\ filesystems = [s \in Sessions |-> NoFilesystem]
    /\ fs_lock = "free"
    /\ overlayfs_available = "None"
    /\ session_dirs = [r \in Roots |-> NoTree]
    /\ snapshots = [s \in Sessions |-> NoSnapshots]
    /\ fs_calls = [c \in FsCallers \cup {"cleanup"} |-> NoCall]
    /\ fs_result = NoResult
    /\ num_calls = 0
    /\ num_writes = 0
    /\ last_archived = [s \in Sessions |-> {}]
    /\ stream = NoStream
    /\ service = NotStarted
    /\ loops = [i \in LoopTasks |-> NoLoop]
    /\ stop_call = NoStop
    /\ procs = [s \in Sessions |-> [p \in Processes |-> "none"]]
    /\ teardown = NoTeardown
    /\ orphans = {}
    /\ environ = 0
    /\ recovery = NoRecovery

(***************************************************************************)
(* create_display(session_id), up to its first suspension inside the lock: *)
(* an existing display is returned as it is; otherwise a number is         *)
(* allocated and the processes are being started.                          *)
(***************************************************************************)
\* A create_display that does not look for an existing display.
NeverExists(s) == FALSE

\* Lines 206-208: `session_id in self._displays`, tested inside the lock.
AlreadyExists(s) == HasDisplay(s)

CreateDisplayExisting(s, who) ==
    /\ dm_lock = DmFree
    /\ AlreadyExists(s)
    /\ dm_result' = Returned("create_display", s, "DisplayInfo")
    /\ UNCHANGED <<displays, used_display_nums, next_display_num, dm_lock, token_file>>

CreateDisplayBegin(s, who) ==
    /\ dm_lock = DmFree
    /\ ~AlreadyExists(s)
    /\ next_display_num <= MaxDisplayNum
    /\ LET a == AllocateDisplayNum(used_display_nums, next_display_num)
       IN  /\ used_display_nums' = a.used
           /\ next_display_num' = a.next
           /\ dm_lock' = [op |-> "create", sid |-> s, display_num |-> a.display_num,
                          vnc_port |-> VncPortOf(a.display_num), caller |-> who]
    /\ UNCHANGED <<displays, token_file, dm_result>>

\* Every start step succeeded: the token line is appended and the DisplayInfo
\* is tracked (lines 229-250).
CreateDisplayOk ==
    /\ dm_lock.op = "create"
    /\ token_file' = AddToken(token_file, dm_lock.sid, dm_lock.vnc_port)
    /\ displays' = [displays EXCEPT ![dm_lock.sid] =
                        DisplayInfo(dm_lock.display_num, dm_lock.vnc_port)]
    /\ dm_lock' = DmFree
    /\ dm_result' = Returned("create_display", dm_lock.sid, "DisplayInfo")
    /\ UNCHANGED <<used_display_nums, next_display_num>>

\* A start step raised: the number is released, the session's token lines are
\* removed and RuntimeError is raised (lines 252-257).
CreateDisplayFail ==
    /\ dm_lock.op = "create"
    /\ used_display_nums' = ReleaseDisplayNum(used_display_nums, dm_lock.display_num)
    /\ token_file' = RemoveToken(token_file, dm_lock.sid)
    /\ dm_lock' = DmFree
    /\ dm_result' = Returned("create_display", dm_lock.sid, "RuntimeError")
    /\ UNCHANGED <<displays, next_display_num>>

(***************************************************************************)
(* destroy_display(session_id): unknown session returns False; otherwise   *)
(* the processes are killed (suspending), then tracking is removed and the *)
(* number released.                                                        *)
(***************************************************************************)
DestroyDisplayUnknown(s, who) ==
    /\ dm_lock = DmFree
    /\ ~HasDisplay(s)
    /\ dm_result' = Returned("destroy_display", s, "False")
    /\ UNCHANGED <<displays, used_display_nums, next_display_num, dm_lock, token_file>>

DestroyDisplayBegin(s, who) ==
    /\ dm_lock = DmFree
    /\ HasDisplay(s)
    /\ dm_lock' = [op |-> "destroy", sid |-> s, display_num |-> displays[s].display_num,
                   vnc_port |-> displays[s].vnc_port, caller |-> who]
    /\ UNCHANGED <<displays, used_display_nums, next_display_num, token_file,
                   dm_result>>

DestroyDisplayEnd ==
    /\ dm_lock.op = "destroy"
    /\ token_file' = RemoveToken(token_file, dm_lock.sid)
    /\ displays' = [displays EXCEPT ![dm_lock.sid] = NoDisplay]
    /\ used_display_nums' = ReleaseDisplayNum(used_display_nums, dm_lock.display_num)
    /\ dm_lock' = DmFree
    /\ dm_result' = Returned("destroy_display", dm_lock.sid, "True")
    /\ UNCHANGED next_display_num

(***************************************************************************)
(* The Display Manager under arbitrary callers.                            *)
(***************************************************************************)
DirectCreateDisplayExisting(s) ==
    CreateDisplayExisting(s, "direct") /\ UNCHANGED rest_vars

DirectCreateDisplayBegin(s) ==
    CreateDisplayBegin(s, "direct") /\ UNCHANGED rest_vars

DirectCreateDisplayOk ==
    dm_lock.caller = "direct" /\ CreateDisplayOk /\ UNCHANGED rest_vars

DirectCreateDisplayFail ==
    dm_lock.caller = "direct" /\ CreateDisplayFail /\ UNCHANGED rest_vars

DirectDestroyDisplayUnknown(s) ==
    DestroyDisplayUnknown(s, "direct") /\ UNCHANGED rest_vars

DirectDestroyDisplayBegin(s) ==
    DestroyDisplayBegin(s, "direct") /\ UNCHANGED rest_vars

DirectDestroyDisplayEnd ==
    dm_lock.caller = "direct" /\ DestroyDisplayEnd /\ UNCHANGED rest_vars

NextDisplay ==
    \/ \E s \in Sessions : DirectCreateDisplayExisting(s)
    \/ \E s \in Sessions : DirectCreateDisplayBegin(s)
    \/ DirectCreateDisplayOk
    \/ DirectCreateDisplayFail
    \/ \E s \in Sessions : DirectDestroyDisplayUnknown(s)
    \/ \E s \in Sessions : DirectDestroyDisplayBegin(s)
    \/ DirectDestroyDisplayEnd

SpecDisplay == Init /\ [][NextDisplay]_vars

(***************************************************************************)
(* destroy_display and the processes of the display                        *)
(* (display_manager.py:279-283, 610-635).  Xvfb, tint2 and x11vnc are      *)
(* children of the server started with subprocess.Popen, whose handle is   *)
(* dropped (463-468, 533-541, 594-604): a child that has exited stays in   *)
(* the process table ("exited") until some later Popen call collects it    *)
(* ("reaped").  os.kill(pid, sig) succeeds on a process that is in the     *)
(* table, exited or not, and raises ProcessLookupError on one that is not. *)
(***************************************************************************)
\* Everything but the Display Manager and the processes.
beside_procs == <<db_vars, now, sm_vars, sm_result, req, cleanup, fs_vars, stream,
                  svc_vars, orphans, environ, recovery>>

\* os.kill(pid, sig) finds the process.
InProcessTable(s, p) == procs[s][p] \in {"running", "exited"}

\* Lines 229-250 with the processes started at 218-227; tint2_pid is 0 when
\* no tint2 is installed (527-528, 542-543).
TeardownCreateDisplayOk(tint2) ==
    /\ dm_lock.caller = "direct"
    /\ CreateDisplayOk
    /\ procs' = [procs EXCEPT ![dm_lock.sid] =
                    [p \in Processes |->
                        IF p = "wm_pid" /\ ~tint2 THEN "none" ELSE "running"]]
    /\ UNCHANGED <<teardown, beside_procs>>

\* Everything but the Display Manager and the processes left behind.
beside_orphans == <<procs, teardown, db_vars, now, sm_vars, sm_result, req, cleanup,
                    fs_vars, stream, svc_vars, environ, recovery>>

\* The processes a create_display call has started when one of its steps
\* raises: none (Popen of Xvfb raised, line 463), Xvfb (_wait_for_display
\* timed out, line 498, or Popen of x11vnc raised, line 594, with no tint2
\* installed), or Xvfb and tint2 (Popen of x11vnc raised).
StartedAtFailure == {{}, {"xvfb_pid"}, {"xvfb_pid", "wm_pid"}}

\* Lines 252-257 release the number and the token and raise; the processes
\* started at 218-227 are left as they are.
LeftBehind(num, started) == {<<num, p>> : p \in started}

TeardownCreateDisplayFail(started) ==
    /\ dm_lock.caller = "direct"
    /\ CreateDisplayFail
    /\ orphans' = orphans \cup LeftBehind(dm_lock.display_num, started)
    /\ UNCHANGED beside_orphans

\* A process left behind ends of itself; nothing in the server signals it.
OrphanExits(o) ==
    /\ o \in orphans
    /\ orphans' = orphans \ {o}
    /\ UNCHANGED <<dm_vars, beside_orphans>>

\* A process ends, of itself or on the SIGTERM it was sent.
ProcessExits(s, p) ==
    /\ procs[s][p] = "running"
    /\ procs' = [procs EXCEPT ![s][p] = "exited"]
    /\ UNCHANGED <<teardown, dm_vars, beside_procs>>

\* subprocess._cleanup(), run by whichever Popen is created next in the
\* server, collects a child that has exited.
ProcessReaped(s, p) ==
    /\ procs[s][p] = "exited"
    /\ procs' = [procs EXCEPT ![s][p] = "reaped"]
    /\ UNCHANGED <<teardown, dm_vars, beside_procs>>

\* Lines 269-278
TeardownBegin(s) ==
    /\ DestroyDisplayBegin(s, "direct")
    /\ teardown' = [NoTeardown EXCEPT !.idx = 1, !.pc = "kill"]
    /\ UNCHANGED <<procs, beside_procs>>

\* The process _kill_process is called for, or would be.
Victim == KillOrder[teardown.idx]

\* Line 280: the next pid attribute, if any.
NextVictim(td) == [td EXCEPT !.idx = @ + 1, !.pc = "kill", !.polls = 0]

Sent(td, sig) == [td EXCEPT !.signals = Append(@, <<Victim, sig>>)]

\* Line 282: `if pid:` skips a pid that is 0.
KillSkipped ==
    /\ teardown.pc = "kill"
    /\ teardown.idx <= Len(KillOrder)
    /\ procs[dm_lock.sid][Victim] = "none"
    /\ teardown' = NextVictim(teardown)
    /\ UNCHANGED <<procs, dm_vars, beside_procs>>

\* Lines 617-624: SIGTERM, then the first probe, which finds the process
\* that has just been signalled, and the first sleep.  A process that is
\* gone raises ProcessLookupError, which line 632 passes over.
KillTerm ==
    /\ teardown.pc = "kill"
    /\ teardown.idx <= Len(KillOrder)
    /\ procs[dm_lock.sid][Victim] # "none"
    /\ teardown' = IF InProcessTable(dm_lock.sid, Victim)
                   THEN [Sent(teardown, "SIGTERM") EXCEPT !.pc = "sleep", !.polls = 1]
                   ELSE NextVictim(teardown)
    /\ UNCHANGED <<procs, dm_vars, beside_procs>>

\* Lines 621-626: the sleep is over and the process is probed again; the
\* probe of a process that is gone ends _kill_process.
KillPoll ==
    /\ teardown.pc = "sleep"
    /\ teardown.polls < PollAttempts
    /\ teardown' = IF InProcessTable(dm_lock.sid, Victim)
                   THEN [teardown EXCEPT !.polls = @ + 1]
                   ELSE NextVictim(teardown)
    /\ UNCHANGED <<procs, dm_vars, beside_procs>>

\* Lines 628-630: the last sleep is over; SIGKILL is sent without another
\* probe, and ends a process that is still running.
KillForce ==
    /\ teardown.pc = "sleep"
    /\ teardown.polls = PollAttempts
    /\ teardown' = IF InProcessTable(dm_lock.sid, Victim)
                   THEN NextVictim(Sent(teardown, "SIGKILL"))
                   ELSE NextVictim(teardown)
    /\ procs' = [procs EXCEPT ![dm_lock.sid][Victim] =
                    IF @ = "running" THEN "exited" ELSE @]
    /\ UNCHANGED <<dm_vars, beside_procs>>

\* Lines 285-296
TeardownEnd ==
    /\ teardown.idx > Len(KillOrder)
    /\ dm_lock.caller = "direct"
    /\ DestroyDisplayEnd
    /\ teardown' = [teardown EXCEPT !.idx = 0, !.pc = "none"]
    /\ UNCHANGED <<procs, beside_procs>>

\* The displays of one session, created and destroyed again and again: the
\* lock keeps the process loops of two calls apart.
NextTeardown ==
    \/ DirectCreateDisplayBegin(SessionOrder[1])
    \/ \E tint2 \in BOOLEAN : TeardownCreateDisplayOk(tint2)
    \/ \E started \in StartedAtFailure : TeardownCreateDisplayFail(started)
    \/ \E o \in orphans : OrphanExits(o)
    \/ \E p \in Processes : ProcessExits(SessionOrder[1], p)
    \/ \E p \in Processes : ProcessReaped(SessionOrder[1], p)
    \/ TeardownBegin(SessionOrder[1])
    \/ KillSkipped
    \/ KillTerm
    \/ KillPoll
    \/ KillForce
    \/ TeardownEnd

SpecTeardown == Init /\ [][NextTeardown]_vars

(***************************************************************************)
(* The Filesystem Manager (filesystem_manager.py).  A call is run by a     *)
(* caller c; it suspends while a subprocess (mount, umount, tar, the       *)
(* capability probe) runs.                                                 *)
(***************************************************************************)
Call(op, s, pc) == [NoCall EXCEPT !.op = op, !.sid = s, !.pc = pc]

SetCall(c, call) ==
    /\ fs_calls' = [fs_calls EXCEPT ![c] = call]
    /\ UNCHANGED fs_result

\* The call returns the value or raises the error.
EndCall(c, call, value) ==
    /\ fs_calls' = [fs_calls EXCEPT ![c] = NoCall]
    /\ fs_result' = Returned(call.op, call.sid, value)

\* _is_overlayfs_available with the cached answer, or "probe" when the probe
\* has to run.
AfterAvailabilityCheck ==
    CASE overlayfs_available = "None" -> "probe"
      [] overlayfs_available = "True" -> "mount"
      [] overlayfs_available = "False" -> "unavailable"

\* create_filesystem, lines 176-207: an existing filesystem is returned as it
\* is; otherwise the directories are made and the availability is asked for.
CreateFilesystemExisting(c, s) ==
    /\ fs_calls[c] = NoCall
    /\ fs_lock = "free"
    /\ HasFilesystem(s)
    /\ EndCall(c, Call("create_filesystem", s, "lock"), "FilesystemInfo")
    /\ UNCHANGED <<filesystems, fs_lock, overlayfs_available, session_dirs, snapshots,
                   num_writes, last_archived>>

CreateFilesystemBegin(c, s) ==
    /\ fs_calls[c] = NoCall
    /\ fs_lock = "free"
    /\ ~HasFilesystem(s)
    /\ LET root == SessionPaths(s).root
           next == AfterAvailabilityCheck
       IN  IF next = "unavailable"
           THEN \* lines 196-200, then 222-230
                /\ session_dirs' = RemoveTree(MakeDirs(session_dirs, root), root)
                /\ EndCall(c, Call("create_filesystem", s, "lock"), "RuntimeError")
                /\ UNCHANGED fs_lock
           ELSE /\ session_dirs' = MakeDirs(session_dirs, root)
                /\ SetCall(c, Call("create_filesystem", s, next))
                /\ fs_lock' = c
    /\ UNCHANGED <<filesystems, overlayfs_available, snapshots, num_writes,
                   last_archived>>

\* _is_overlayfs_available, lines 548-599: the answer is cached.
CreateFilesystemProbe(c, ok) ==
    /\ fs_calls[c].op = "create_filesystem"
    /\ fs_calls[c].pc = "probe"
    /\ overlayfs_available' = IF ok THEN "True" ELSE "False"
    /\ IF ok
       THEN /\ SetCall(c, [fs_calls[c] EXCEPT !.pc = "mount"])
            /\ UNCHANGED <<session_dirs, fs_lock>>
       ELSE /\ session_dirs' = RemoveTree(session_dirs, SessionPaths(fs_calls[c].sid).root)
            /\ EndCall(c, fs_calls[c], "RuntimeError")
            /\ fs_lock' = "free"
    /\ UNCHANGED <<filesystems, snapshots, num_writes, last_archived>>

\* _mount_overlay returned: lines 205-220.
CreateFilesystemMountOk(c) ==
    /\ fs_calls[c].op = "create_filesystem"
    /\ fs_calls[c].pc = "mount"
    /\ LET s == fs_calls[c].sid
       IN  /\ session_dirs' = Mount(session_dirs, SessionPaths(s).root)
           /\ filesystems' = [filesystems EXCEPT ![s] = FilesystemInfo(SessionPaths(s))]
    /\ EndCall(c, fs_calls[c], "FilesystemInfo")
    /\ fs_lock' = "free"
    /\ UNCHANGED <<overlayfs_available, snapshots, num_writes, last_archived>>

\* _mount_overlay raised: lines 222-230.
CreateFilesystemMountFail(c) ==
    /\ fs_calls[c].op = "create_filesystem"
    /\ fs_calls[c].pc = "mount"
    /\ session_dirs' = RemoveTree(session_dirs, SessionPaths(fs_calls[c].sid).root)
    /\ EndCall(c, fs_calls[c], "RuntimeError")
    /\ fs_lock' = "free"
    /\ UNCHANGED <<filesystems, overlayfs_available, snapshots, num_writes,
                   last_archived>>

\* A destroy_filesystem that forgets the probe's answer when it finds nothing
\* tracked.
DestroyFilesystemForgetsProbe(c, s) ==
    /\ fs_calls[c] = NoCall
    /\ fs_lock = "free"
    /\ ~HasFilesystem(s)
    /\ overlayfs_available' = "None"
    /\ EndCall(c, Call("destroy_filesystem", s, "lock"), "False")
    /\ UNCHANGED <<filesystems, fs_lock, session_dirs, snapshots, num_writes,
                   last_archived>>

\* destroy_filesystem, lines 242-245: nothing tracked.
DestroyFilesystemUnknown(c, s) ==
    /\ fs_calls[c] = NoCall
    /\ fs_lock = "free"
    /\ ~HasFilesystem(s)
    /\ EndCall(c, Call("destroy_filesystem", s, "lock"), "False")
    /\ UNCHANGED <<filesystems, fs_lock, overlayfs_available, session_dirs, snapshots,
                   num_writes, last_archived>>

\* Lines 247-255: the overlay is being unmounted.
DestroyFilesystemBegin(c, s) ==
    /\ fs_calls[c] = NoCall
    /\ fs_lock = "free"
    /\ HasFilesystem(s)
    /\ SetCall(c, Call("destroy_filesystem", s, "unmount"))
    /\ fs_lock' = c
    /\ UNCHANGED <<filesystems, overlayfs_available, session_dirs, snapshots,
                   num_writes, last_archived>>

\* Lines 257-272: the tree is removed, then the tracking entry; an entry that
\* is gone by then makes both del statements raise KeyError.
DestroyFilesystemEnd(c) ==
    /\ fs_calls[c].op = "destroy_filesystem"
    /\ fs_calls[c].pc = "unmount"
    /\ LET s == fs_calls[c].sid
           root == SessionPaths(s).root
       IN  /\ session_dirs' = RemoveTree(Unmount(session_dirs, root), root)
           /\ filesystems' = [filesystems EXCEPT ![s] = NoFilesystem]
           /\ EndCall(c, fs_calls[c], IF HasFilesystem(s) THEN "True" ELSE "KeyError")
    /\ fs_lock' = "free"
    /\ UNCHANGED <<overlayfs_available, snapshots, num_writes, last_archived>>

\* archive_filesystem, lines 374-375.  The manager's lock is not taken.
ArchiveFilesystemUnknown(c, s) ==
    /\ fs_calls[c] = NoCall
    /\ ~HasFilesystem(s)
    /\ EndCall(c, Call("archive_filesystem", s, "check"), "ValueError")
    /\ UNCHANGED <<filesystems, fs_lock, overlayfs_available, session_dirs, snapshots,
                   num_writes, last_archived>>

\* Lines 377-388: the archive name is chosen, the overlay is being unmounted.
ArchiveFilesystemBegin(c, s, compress) ==
    /\ fs_calls[c] = NoCall
    /\ HasFilesystem(s)
    /\ SetCall(c, [Call("archive_filesystem", s, "unmount") EXCEPT
                       !.archive = ArchiveName(compress)])
    /\ UNCHANGED <<filesystems, fs_lock, overlayfs_available, session_dirs, snapshots,
                   num_writes, last_archived>>

\* Lines 390-402: tar is started on the upper directory.
ArchiveFilesystemUnmounted(c) ==
    /\ fs_calls[c].op = "archive_filesystem"
    /\ fs_calls[c].pc = "unmount"
    /\ session_dirs' = Unmount(session_dirs, SessionPaths(fs_calls[c].sid).root)
    /\ SetCall(c, [fs_calls[c] EXCEPT !.pc = "tar"])
    /\ UNCHANGED <<filesystems, fs_lock, overlayfs_available, snapshots, num_writes,
                   last_archived>>

\* Lines 404-420: tar wrote the archive; the tree is removed, then the
\* tracking entry (KeyError when it is gone).
ArchiveFilesystemTarOk(c) ==
    /\ fs_calls[c].op = "archive_filesystem"
    /\ fs_calls[c].pc = "tar"
    /\ LET s == fs_calls[c].sid
           root == SessionPaths(s).root
       IN  /\ session_dirs[root].exists
           /\ snapshots' = [snapshots EXCEPT ![s][fs_calls[c].archive] =
                                Archive(session_dirs[root].upper)]
           /\ last_archived' = [last_archived EXCEPT ![s] = session_dirs[root].upper]
           /\ session_dirs' = RemoveTree(session_dirs, root)
           /\ filesystems' = [filesystems EXCEPT ![s] = NoFilesystem]
           /\ EndCall(c, fs_calls[c], IF HasFilesystem(s) THEN "archive"
                                        ELSE "KeyError")
    /\ UNCHANGED <<fs_lock, overlayfs_available, num_writes>>

\* Lines 404-405: tar failed.
ArchiveFilesystemTarFail(c) ==
    /\ fs_calls[c].op = "archive_filesystem"
    /\ fs_calls[c].pc = "tar"
    /\ EndCall(c, fs_calls[c], "RuntimeError")
    /\ UNCHANGED <<filesystems, fs_lock, overlayfs_available, session_dirs, snapshots,
                   num_writes, last_archived>>

\* restore_filesystem, lines 436-447: no archive.  The lock is not taken.
RestoreFilesystemNoArchive(c, s) ==
    /\ fs_calls[c] = NoCall
    /\ FindArchive(snapshots[s]) = "none"
    /\ EndCall(c, Call("restore_filesystem", s, "find"), "FileNotFoundError")
    /\ UNCHANGED <<filesystems, fs_lock, overlayfs_available, session_dirs, snapshots,
                   num_writes, last_archived>>

\* Lines 436-464: the archive is found, the directories are made, tar is
\* started.
RestoreFilesystemBegin(c, s) ==
    /\ fs_calls[c] = NoCall
    /\ FindArchive(snapshots[s]) # "none"
    /\ session_dirs' = MakeDirs(session_dirs, SessionPaths(s).root)
    /\ SetCall(c, [Call("restore_filesystem", s, "extract") EXCEPT
                       !.archive = FindArchive(snapshots[s])])
    /\ UNCHANGED <<filesystems, fs_lock, overlayfs_available, snapshots, num_writes,
                   last_archived>>

\* Lines 462-476: tar extracted the archive into the upper directory, on top
\* of what is there; then the availability is asked for.  An archive exists
\* only after a filesystem was mounted, so the answer is cached by now.
RestoreFilesystemExtractOk(c) ==
    /\ fs_calls[c].op = "restore_filesystem"
    /\ fs_calls[c].pc = "extract"
    /\ LET s == fs_calls[c].sid
           root == SessionPaths(s).root
           next == AfterAvailabilityCheck
       IN  /\ session_dirs[root].exists
           /\ session_dirs' = [session_dirs EXCEPT ![root].upper =
                                   @ \cup snapshots[s][fs_calls[c].archive].files]
           /\ IF next = "mount"
              THEN SetCall(c, [fs_calls[c] EXCEPT !.pc = next])
              ELSE EndCall(c, fs_calls[c], "RuntimeError")
    /\ UNCHANGED <<filesystems, fs_lock, overlayfs_available, snapshots, num_writes,
                   last_archived>>

\* Lines 466-467: tar failed.
RestoreFilesystemExtractFail(c) ==
    /\ fs_calls[c].op = "restore_filesystem"
    /\ fs_calls[c].pc = "extract"
    /\ EndCall(c, fs_calls[c], "RuntimeError")
    /\ UNCHANGED <<filesystems, fs_lock, overlayfs_available, session_dirs, snapshots,
                   num_writes, last_archived>>

\* Lines 476-489: the overlay is mounted, the FilesystemInfo is tracked.
RestoreFilesystemMountOk(c) ==
    /\ fs_calls[c].op = "restore_filesystem"
    /\ fs_calls[c].pc = "mount"
    /\ LET s == fs_calls[c].sid
       IN  /\ session_dirs[SessionPaths(s).root].exists
           /\ session_dirs' = Mount(session_dirs, SessionPaths(s).root)
           /\ filesystems' = [filesystems EXCEPT ![s] = FilesystemInfo(SessionPaths(s))]
    /\ EndCall(c, fs_calls[c], "FilesystemInfo")
    /\ UNCHANGED <<fs_lock, overlayfs_available, snapshots, num_writes, last_archived>>

RestoreFilesystemMountFail(c) ==
    /\ fs_calls[c].op = "restore_filesystem"
    /\ fs_calls[c].pc = "mount"
    /\ EndCall(c, fs_calls[c], "RuntimeError")
    /\ UNCHANGED <<filesystems, fs_lock, overlayfs_available, session_dirs, snapshots,
                   num_writes, last_archived>>

\* A tool of the session writes a new file below its merged root
\* (FilesystemInfo.merged_root, handed out by get_filesystem_env): with the
\* overlay mounted the file lands in the overlay's upper directory.
WriteFile(s) ==
    /\ HasFilesystem(s)
    /\ num_writes < MaxWrites
    /\ LET root == RootOfMerged(filesystems[s].merged_root)
       IN  /\ session_dirs[root].mounted
           /\ session_dirs' = [session_dirs EXCEPT ![root].upper =
                                   @ \cup {File(num_writes + 1, s)}]
    /\ num_writes' = num_writes + 1
    /\ UNCHANGED <<filesystems, fs_lock, overlayfs_available, snapshots, fs_calls,
                   fs_result, last_archived>>

\* What is visible below the session's merged root: the lower layer and the
\* upper directory of the overlay mounted there.
MergedView(s) ==
    LET root == RootOfMerged(filesystems[s].merged_root)
    IN  IF HasFilesystem(s) /\ session_dirs[root].mounted
        THEN session_dirs[BaseDir].upper \cup session_dirs[root].upper
        ELSE {}

\* Callers are interchangeable: a new call is made by the first caller unless
\* that one is busy.
FsStarts(c) ==
    /\ fs_calls[c] = NoCall
    /\ c = "c1" \/ fs_calls["c1"] # NoCall
    /\ num_calls < MaxCalls
    /\ num_calls' = num_calls + 1
    /\ UNCHANGED service_vars

\* A call in progress goes on.
FsGoesOn == UNCHANGED <<num_calls, service_vars>>

NextFilesystem ==
    \/ \E c \in FsCallers, s \in Sessions :
          FsStarts(c) /\ CreateFilesystemExisting(c, s)
    \/ \E c \in FsCallers, s \in Sessions :
          FsStarts(c) /\ CreateFilesystemBegin(c, s)
    \/ \E c \in FsCallers, ok \in BOOLEAN :
          CreateFilesystemProbe(c, ok) /\ FsGoesOn
    \/ \E c \in FsCallers : CreateFilesystemMountOk(c) /\ FsGoesOn
    \/ \E c \in FsCallers : CreateFilesystemMountFail(c) /\ FsGoesOn
    \/ \E c \in FsCallers, s \in Sessions :
          FsStarts(c) /\ DestroyFilesystemUnknown(c, s)
    \/ \E c \in FsCallers, s \in Sessions :
          FsStarts(c) /\ DestroyFilesystemBegin(c, s)
    \/ \E c \in FsCallers : DestroyFilesystemEnd(c) /\ FsGoesOn
    \/ \E c \in FsCallers, s \in Sessions :
          FsStarts(c) /\ ArchiveFilesystemUnknown(c, s)
    \/ \E c \in FsCallers, s \in Sessions, compress \in BOOLEAN :
          FsStarts(c) /\ ArchiveFilesystemBegin(c, s, compress)
    \/ \E c \in FsCallers : ArchiveFilesystemUnmounted(c) /\ FsGoesOn
    \/ \E c \in FsCallers : ArchiveFilesystemTarOk(c) /\ FsGoesOn
    \/ \E c \in FsCallers : ArchiveFilesystemTarFail(c) /\ FsGoesOn
    \/ \E c \in FsCallers, s \in Sessions :
          FsStarts(c) /\ RestoreFilesystemNoArchive(c, s)
    \/ \E c \in FsCallers, s \in Sessions :
          FsStarts(c) /\ RestoreFilesystemBegin(c, s)
    \/ \E c \in FsCallers : RestoreFilesystemExtractOk(c) /\ FsGoesOn
    \/ \E c \in FsCallers : RestoreFilesystemExtractFail(c) /\ FsGoesOn
    \/ \E c \in FsCallers : RestoreFilesystemMountOk(c) /\ FsGoesOn
    \/ \E c \in FsCallers : RestoreFilesystemMountFail(c) /\ FsGoesOn
    \/ \E s \in Sessions : WriteFile(s) /\ FsGoesOn

SpecFilesystem == Init /\ [][NextFilesystem]_vars

NextManagers ==
    \/ \E s \in Sessions : DirectCreateDisplayExisting(s)
    \/ \E s \in Sessions : DirectCreateDisplayBegin(s)
    \/ DirectCreateDisplayOk
    \/ DirectCreateDisplayFail
    \/ \E s \in Sessions : DirectDestroyDisplayUnknown(s)
    \/ \E s \in Sessions : DirectDestroyDisplayBegin(s)
    \/ DirectDestroyDisplayEnd
    \/ \E s \in Sessions : FsStarts("c1") /\ CreateFilesystemExisting("c1", s)
    \/ \E s \in Sessions : FsStarts("c1") /\ CreateFilesystemBegin("c1", s)
    \/ \E ok \in BOOLEAN : CreateFilesystemProbe("c1", ok) /\ FsGoesOn
    \/ CreateFilesystemMountOk("c1") /\ FsGoesOn
    \/ CreateFilesystemMountFail("c1") /\ FsGoesOn
    \/ \E s \in Sessions : FsStarts("c1") /\ DestroyFilesystemUnknown("c1", s)
    \/ \E s \in Sessions : FsStarts("c1") /\ DestroyFilesystemBegin("c1", s)
    \/ DestroyFilesystemEnd("c1") /\ FsGoesOn

SpecManagers == Init /\ [][NextManagers]_vars

(***************************************************************************)
(* The record store (SessionRepository).                                   *)
(***************************************************************************)
\* SessionRepository.update_session_status: no guard on the current status.
UpdateSessionStatus(st, s, v) == [st EXCEPT ![s] = v]

\* SessionRepository.add_message
AddMessage(ms, s, m) == [ms EXCEPT ![s] = Append(ms[s], m)]

\* SessionRepository.update_last_activity
UpdateLastActivity(la, s, t) == [la EXCEPT ![s] = t]

\* SessionRepository.update_session_display
UpdateSessionDisplay(sd, s, n) == [sd EXCEPT ![s] = n]

\* SessionRepository.get_sessions_inactive_since(cutoff), cutoff = now - TTL
SessionsInactiveSince(cutoff) ==
    {s \in Sessions : status[s] # "none" /\ last_activity[s] < cutoff}

SetReq(q, r) == req' = [req EXCEPT ![q] = r]

\* The request handler has answered.
Terminal == {"rejected", "returned"}

\* Request handlers are interchangeable: a new request is served by the first
\* handler unless that one is busy.
Starts(q) == req[q] = Idle /\ (q = "q1" \/ req["q1"] # Idle)

Existing == {s \in Sessions : status[s] # "none"}

\* Session ids are interchangeable: a new session takes the first unused one.
FirstUnused ==
    LET free == {i \in DOMAIN SessionOrder : status[SessionOrder[i]] = "none"}
    IN  IF free = {} THEN NoSession
        ELSE SessionOrder[CHOOSE i \in free : \A j \in free : i <= j]

\* create_session has returned the session: its id is known to the clients.
Created(s) ==
    /\ status[s] # "none"
    /\ ~\E q \in Reqs : req[q].op = "create_session" /\ req[q].sid = s

ReqDone(q) ==
    /\ req[q].pc \in Terminal
    /\ SetReq(q, Idle)
    /\ UNCHANGED <<ext_vars, sm_result, fs_vars, dm_vars, db_vars, now, sm_vars, cleanup>>

(***************************************************************************)
(* SessionManager.create_session (session_manager.py:92-150).              *)
(***************************************************************************)
CreateSessionBegin(q, s, limit) ==
    /\ Starts(q)
    /\ s = FirstUnused
    /\ Cardinality(Existing) < limit
    /\ status' = UpdateSessionStatus(status, s, "active")
    /\ last_activity' = UpdateLastActivity(last_activity, s, now)
    /\ SetReq(q, [Idle EXCEPT !.op = "create_session", !.sid = s,
                              !.pc = "create_display", !.loaded = "active"])
    /\ UNCHANGED <<ext_vars, sm_result, fs_vars, dm_vars, messages, session_display, now, sm_vars, cleanup>>

ReqCreateDisplayBegin(q) ==
    /\ req[q].pc = "create_display"
    /\ CreateDisplayBegin(req[q].sid, q)
    /\ SetReq(q, [req[q] EXCEPT !.pc = "display_wait"])
    /\ UNCHANGED <<ext_vars, sm_result, fs_vars, db_vars, now, sm_vars, cleanup>>

ReqCreateDisplayOk(q) ==
    /\ dm_lock.caller = q
    /\ CreateDisplayOk
    /\ SetReq(q, [req[q] EXCEPT !.pc = "update_display", !.num = dm_lock.display_num])
    /\ UNCHANGED <<ext_vars, sm_result, fs_vars, db_vars, now, sm_vars, cleanup>>

\* A create_session that answers with the error of create_display.
DisplayFailureFailsCreation(r) == [r EXCEPT !.pc = "returned"]

\* Lines 140-143: a warning is printed and the session goes on without a
\* display.
DisplayFailureTolerated(r) == [r EXCEPT !.pc = "register"]

\* create_display raised.
ReqCreateDisplayFail(q) ==
    /\ dm_lock.caller = q
    /\ CreateDisplayFail
    /\ SetReq(q, DisplayFailureTolerated(req[q]))
    /\ UNCHANGED <<ext_vars, sm_result, fs_vars, db_vars, now, sm_vars, cleanup>>

CreateSessionUpdateDisplay(q) ==
    /\ req[q].pc = "update_display"
    /\ session_display' = UpdateSessionDisplay(session_display, req[q].sid, req[q].num)
    /\ SetReq(q, [req[q] EXCEPT !.pc = "refresh"])
    /\ UNCHANGED <<ext_vars, sm_result, fs_vars, dm_vars, status, messages, last_activity, now, sm_vars, cleanup>>

\* Line 138: the session is read again, to be returned with its display.
CreateSessionRefresh(q) ==
    /\ req[q].pc = "refresh"
    /\ SetReq(q, [req[q] EXCEPT !.pc = "register", !.loaded = status[req[q].sid]])
    /\ UNCHANGED <<ext_vars, sm_result, fs_vars, dm_vars, db_vars, now, sm_vars, cleanup>>

CreateSessionRegister(q) ==
    /\ req[q].pc = "register"
    /\ req[q].op = "create_session"
    /\ sm_lock = "free"
    /\ active_sessions' = [active_sessions EXCEPT ![req[q].sid] = NewActive]
    /\ SetReq(q, Idle)
    /\ UNCHANGED <<ext_vars, sm_result, fs_vars, dm_vars, db_vars, now, sm_lock, runners, num_sends, cleanup>>

\* Messages accepted so far or about to be: a call that will be rejected
\* starts no execution.
RunsBegun ==
    num_sends + Cardinality({p \in Reqs : /\ req[p].pc = "validate"
                                          /\ ~SendRejected(req[p].loaded)})

(***************************************************************************)
(* Sending a message: the caller loads the session (deps.py:43-73 for the  *)
(* API route, which answers 404 for an archived session; mcp/tools.py:146  *)
(* and any other caller of the service), then                              *)
(* SessionManager.send_message(repo, session, content) runs on the loaded  *)
(* object (session_manager.py:205-289).                                    *)
(***************************************************************************)
SendLoad(q, s, via, limit) ==
    /\ Starts(q)
    /\ Created(s)
    /\ SendRejected(status[s]) \/ RunsBegun < limit
    /\ via = "api" => status[s] # "archived"
    /\ SetReq(q, [Idle EXCEPT !.op = "send", !.sid = s, !.pc = "validate",
                              !.via = via, !.loaded = status[s]])
    /\ UNCHANGED <<ext_vars, sm_result, fs_vars, dm_vars, db_vars, now, sm_vars, cleanup>>

\* routes/sessions.py:237-241: HTTP 409 before send_message is reached.
SendConflict(q) ==
    /\ req[q].pc = "validate"
    /\ req[q].via = "api"
    /\ IsSessionProcessing(req[q].sid)
    /\ SetReq(q, Idle)
    /\ UNCHANGED <<ext_vars, sm_result, fs_vars, dm_vars, db_vars, now, sm_vars, cleanup>>

\* session_manager.py:233-236: ValueError before anything is written.
SendReject(q) ==
    /\ req[q].pc = "validate"
    /\ req[q].via = "api" => ~IsSessionProcessing(req[q].sid)
    /\ SendRejected(req[q].loaded)
    /\ SetReq(q, [req[q] EXCEPT !.pc = "rejected"])
    /\ UNCHANGED <<ext_vars, sm_result, fs_vars, dm_vars, db_vars, now, sm_vars, cleanup>>

\* session_manager.py:239-243: the user message is stored.
SendAddMessage(q) ==
    /\ req[q].pc = "validate"
    /\ req[q].via = "api" => ~IsSessionProcessing(req[q].sid)
    /\ ~SendRejected(req[q].loaded)
    /\ num_sends' = num_sends + 1
    /\ messages' = AddMessage(messages, req[q].sid, UserMessage(num_sends + 1))
    /\ SetReq(q, [req[q] EXCEPT !.pc = "update_activity", !.run = num_sends + 1])
    /\ UNCHANGED <<ext_vars, sm_result, fs_vars, dm_vars, status, last_activity, session_display, now,
                   active_sessions, sm_lock, runners, cleanup>>

\* session_manager.py:246
SendUpdateActivity(q) ==
    /\ req[q].pc = "update_activity"
    /\ last_activity' = UpdateLastActivity(last_activity, req[q].sid, now)
    /\ SetReq(q, [req[q] EXCEPT !.pc = "set_status"])
    /\ UNCHANGED <<ext_vars, sm_result, fs_vars, dm_vars, status, messages, session_display, now, sm_vars, cleanup>>

\* session_manager.py:249
SendSetProcessing(q) ==
    /\ req[q].pc = "set_status"
    /\ status' = UpdateSessionStatus(status, req[q].sid, "processing")
    /\ SetReq(q, [req[q] EXCEPT !.pc = "load_history"])
    /\ UNCHANGED <<ext_vars, sm_result, fs_vars, dm_vars, messages, last_activity, session_display, now, sm_vars,
                   cleanup>>

\* session_manager.py:252: the history the runner starts from.
SendLoadHistory(q) ==
    /\ req[q].pc = "load_history"
    /\ SetReq(q, [req[q] EXCEPT !.pc = "register", !.history = messages[req[q].sid]])
    /\ UNCHANGED <<ext_vars, sm_result, fs_vars, dm_vars, db_vars, now, sm_vars, cleanup>>

\* DisplayManager.get_display_env (display_manager.py:298-312): the number
\* behind {"DISPLAY": ":<n>"}, or 0 for None when the session has no display.
GetDisplayEnv(s) == IF HasDisplay(s) THEN displays[s].display_num ELSE 0

\* agent_runner.py:275-277, the first step of the task: os.environ["DISPLAY"]
\* is set when the runner was given a display.
SetDisplay(env, display_env) == IF display_env # 0 THEN display_env ELSE env

\* agent_runner.py:332-338, the finally block of the task.
RestoreDisplay(env, runner) ==
    IF runner.original_display # 0 THEN runner.original_display
    ELSE IF env # 0 /\ runner.display_env # 0 THEN 0
    ELSE env

\* The ActiveSession entry after session_manager.py:272-279.
TrackRunner(a, k) == [present |-> TRUE, runner |-> k, is_processing |-> TRUE]

\* AgentRunner(messages=history) and AgentRunner.run (agent_runner.py:226-260):
\* the user message is appended to the loaded history and the task is created.
StartRunner(s, k, history) ==
    QueueEvent([NoRunner EXCEPT !.sid = s, !.task = "running",
                                !.messages = Append(history, UserMessage(k)),
                                !.handler = "await",
                                !.display_env = GetDisplayEnv(s),
                                !.original_display = environ],
               "status")

\* session_manager.py:257-289: the runner is tracked, its task started and the
\* completion handler scheduled; nothing suspends once the lock is taken.
\* The task sets DISPLAY when the event loop first runs it; that step is
\* joined to this one, the order of the two against the steps of other tasks
\* being the order of this step against them.
SendRegister(q) ==
    /\ req[q].pc = "register"
    /\ req[q].op = "send"
    /\ sm_lock = "free"
    /\ active_sessions' = [active_sessions EXCEPT ![req[q].sid] =
                               TrackRunner(active_sessions[req[q].sid], req[q].run)]
    /\ runners' = [runners EXCEPT ![req[q].run] =
                       StartRunner(req[q].sid, req[q].run, req[q].history)]
    /\ environ' = SetDisplay(environ, GetDisplayEnv(req[q].sid))
    /\ SetReq(q, [req[q] EXCEPT !.pc = "returned", !.history = <<>>])
    /\ UNCHANGED <<beside_environ, sm_result, fs_vars, dm_vars, db_vars, now, sm_lock, num_sends, cleanup>>

\* An awaited call inside send_message raises after the first write.  A caller
\* that catches it inside its store context (mcp/tools.py:254-263) commits what
\* was written; the API route's context rolls back (db/session.py:87-89), which
\* leaves nothing to see and is not a step.
SendFail(q) ==
    /\ req[q].op = "send"
    /\ req[q].via = "service"
    /\ req[q].pc \in {"update_activity", "set_status", "load_history", "register"}
    /\ SetReq(q, Idle)
    /\ UNCHANGED <<ext_vars, sm_result, fs_vars, dm_vars, db_vars, now, sm_vars, cleanup>>

(***************************************************************************)
(* The execution task (AgentRunner._run_loop, agent_runner.py:262-338).    *)
(***************************************************************************)
\* The sampling loop returns the extended conversation.
TaskSucceed(r) ==
    /\ runners[r].task = "running"
    /\ runners' = [runners EXCEPT ![r] =
           QueueEvent([@ EXCEPT !.task = "done", !.outcome = "completed",
                                !.messages = Append(@, AssistantMessage(r))],
                      "message_complete")]
    /\ environ' = RestoreDisplay(environ, runners[r])
    /\ UNCHANGED <<beside_environ, sm_result, fs_vars, dm_vars, db_vars, now, active_sessions, sm_lock, num_sends, req,
                   cleanup>>

\* The sampling loop raises: _run_loop catches the exception, queues the error
\* and completion events and returns normally (agent_runner.py:316-330).
TaskAgentRaises(r) ==
    /\ runners[r].task = "running"
    /\ runners' = [runners EXCEPT ![r] =
           QueueEvent(QueueEvent([@ EXCEPT !.task = "done", !.outcome = "error"],
                                 "error"),
                      "message_complete")]
    /\ environ' = RestoreDisplay(environ, runners[r])
    /\ UNCHANGED <<beside_environ, sm_result, fs_vars, dm_vars, db_vars, now, active_sessions, sm_lock, num_sends, req,
                   cleanup>>

\* A cancelled task unwinds with CancelledError (agent_runner.py:428-433).
TaskUnwind(r) ==
    /\ runners[r].task = "cancelling"
    /\ runners' = [runners EXCEPT ![r].task = "cancelled"]
    /\ environ' = RestoreDisplay(environ, runners[r])
    /\ UNCHANGED <<beside_environ, sm_result, fs_vars, dm_vars, db_vars, now, active_sessions, sm_lock, num_sends, req,
                   cleanup>>

(***************************************************************************)
(* SessionManager._handle_completion (session_manager.py:291-360), one     *)
(* background task per accepted message.                                   *)
(***************************************************************************)
\* final_messages[existing_count:]
NewMessages(final, existing_count) == SubSeq(final, existing_count + 1, Len(final))

\* The status written once the results are stored (session_manager.py:342).
StatusKeepsProcessing(outcome) == "processing"  \* a handler that forgets the write

StatusAfterCompletion(outcome) == "active"

\* Lines 305-339: the task has ended normally; what it produced beyond the
\* stored rows is stored.
HandlerPersist(r) ==
    /\ runners[r].handler = "await"
    /\ runners[r].task = "done"
    /\ messages' = [messages EXCEPT ![runners[r].sid] =
                        @ \o NewMessages(runners[r].messages, Len(@))]
    /\ runners' = [runners EXCEPT ![r].handler = "set_status"]
    /\ UNCHANGED <<ext_vars, sm_result, fs_vars, dm_vars, status, last_activity, session_display, now,
                   active_sessions, sm_lock, num_sends, req, cleanup>>

\* Line 342.
HandlerSetStatus(r) ==
    /\ runners[r].handler = "set_status"
    /\ status' = UpdateSessionStatus(status, runners[r].sid,
                                     StatusAfterCompletion(runners[r].outcome))
    /\ runners' = [runners EXCEPT ![r].handler = "finally"]
    /\ UNCHANGED <<ext_vars, sm_result, fs_vars, dm_vars, messages, last_activity, session_display, now,
                   active_sessions, sm_lock, num_sends, req, cleanup>>

\* Lines 344-353: storing the results raised; its context rolls back, and the
\* handler tries to write ERROR, giving up silently when that raises too.
HandlerPersistFail(r, written) ==
    /\ runners[r].handler = "await"
    /\ runners[r].task = "done"
    /\ status' = IF written THEN UpdateSessionStatus(status, runners[r].sid, "error")
                 ELSE status
    /\ runners' = [runners EXCEPT ![r].handler = "finally", ![r].persist_failed = TRUE]
    /\ UNCHANGED <<ext_vars, sm_result, fs_vars, dm_vars, messages, last_activity, session_display, now,
                   active_sessions, sm_lock, num_sends, req, cleanup>>

\* Line 306 raises CancelledError, which `except Exception` does not catch:
\* only the finally block runs.
HandlerCancelled(r) ==
    /\ runners[r].handler = "await"
    /\ runners[r].task = "cancelled"
    /\ runners' = [runners EXCEPT ![r].handler = "finally"]
    /\ UNCHANGED <<ext_vars, sm_result, fs_vars, dm_vars, db_vars, now, active_sessions, sm_lock, num_sends, req,
                   cleanup>>

\* The handler has returned: nothing refers to the runner any more, and only
\* how its task and its handler ended is kept.
Finished(runner) == [NoRunner EXCEPT !.sid = runner.sid, !.task = runner.task,
                                     !.handler = "done",
                                     !.persist_failed = runner.persist_failed]

\* The same when a consumer has the runner's iterator: its queue is kept.
Streamed(runner) == [Finished(runner) EXCEPT !.event_queue = runner.event_queue,
                                             !.queued = runner.queued]

\* A finally block that leaves the entry as it finds it.
LeaveActive(a) == a

\* Lines 355-360: the entry of the session, whichever runner it tracks.
ClearActive(a) ==
    IF a.present THEN [present |-> TRUE, runner |-> 0, is_processing |-> FALSE] ELSE a

HandlerFinally(r) ==
    /\ runners[r].handler = "finally"
    /\ sm_lock = "free"
    /\ active_sessions' = [active_sessions EXCEPT ![runners[r].sid] = ClearActive(@)]
    /\ runners' = [runners EXCEPT ![r] =
           IF stream.run = r
           THEN Streamed(runners[r]) ELSE Finished(runners[r])]
    /\ UNCHANGED <<ext_vars, sm_result, fs_vars, dm_vars, db_vars, now, sm_lock, num_sends, req, cleanup>>

(***************************************************************************)
(* Cancelling: the API route (routes/sessions.py:384-406) around           *)
(* SessionManager.cancel_processing (session_manager.py:427-439) and       *)
(* AgentRunner.cancel (agent_runner.py:422-433).                           *)
(***************************************************************************)
\* `active and active.runner` (line 434): the entry tracks a runner.
HasRunnerHandle(s) == active_sessions[s].present /\ active_sessions[s].runner # 0

\* Line 436, `active.is_processing = False`.
CancelKeepsProcessing(a) == a  \* a cancellation that leaves the flag set

CancelledActive(a) == [a EXCEPT !.is_processing = FALSE]

\* Line 438: no entry, or an entry without a runner; nothing is touched.
CancelNothing(q, s) ==
    /\ Starts(q)
    /\ Created(s)
    /\ status[s] # "archived"
    /\ sm_lock = "free"
    /\ ~HasRunnerHandle(s)
    /\ sm_result' = Returned("cancel_processing", s, "False")
    /\ UNCHANGED <<ext_vars, fs_vars, dm_vars, db_vars, now, sm_vars, req, cleanup>>

\* The task is still running: cancellation is requested and awaited, the lock held.
CancelBegin(q, s) ==
    /\ Starts(q)
    /\ Created(s)
    /\ status[s] # "archived"
    /\ sm_lock = "free"
    /\ active_sessions[s].present
    /\ active_sessions[s].runner # 0
    /\ runners[active_sessions[s].runner].task = "running"
    /\ runners' = [runners EXCEPT ![active_sessions[s].runner].task = "cancelling"]
    /\ sm_lock' = q
    /\ SetReq(q, [Idle EXCEPT !.op = "cancel", !.sid = s, !.pc = "cancel_wait",
                              !.run = active_sessions[s].runner])
    /\ UNCHANGED <<ext_vars, sm_result, fs_vars, dm_vars, db_vars, now, active_sessions, num_sends, cleanup>>

\* The tracked task has already ended: runner.cancel() does nothing.
CancelEnded(q, s) ==
    /\ Starts(q)
    /\ Created(s)
    /\ status[s] # "archived"
    /\ sm_lock = "free"
    /\ active_sessions[s].present
    /\ active_sessions[s].runner # 0
    /\ runners[active_sessions[s].runner].task # "running"
    /\ active_sessions' = [active_sessions EXCEPT ![s] = CancelledActive(@)]
    /\ sm_result' = Returned("cancel_processing", s, "True")
    /\ SetReq(q, [Idle EXCEPT !.op = "cancel", !.sid = s, !.pc = "set_active",
                              !.run = active_sessions[s].runner])
    /\ UNCHANGED <<ext_vars, fs_vars, dm_vars, db_vars, now, sm_lock, runners, num_sends, cleanup>>

CancelUnwound(q) ==
    /\ req[q].pc = "cancel_wait"
    /\ runners[req[q].run].task = "cancelled"
    /\ active_sessions' = [active_sessions EXCEPT ![req[q].sid] = CancelledActive(@)]
    /\ sm_result' = Returned("cancel_processing", req[q].sid, "True")
    /\ sm_lock' = "free"
    /\ SetReq(q, [req[q] EXCEPT !.pc = "set_active"])
    /\ UNCHANGED <<ext_vars, fs_vars, dm_vars, db_vars, now, runners, num_sends, cleanup>>

\* routes/sessions.py:403
CancelSetActive(q) ==
    /\ req[q].pc = "set_active"
    /\ status' = UpdateSessionStatus(status, req[q].sid, "active")
    /\ SetReq(q, Idle)
    /\ UNCHANGED <<ext_vars, sm_result, fs_vars, dm_vars, messages, last_activity, session_display, now, sm_vars,
                   cleanup>>

(***************************************************************************)
(* Event streaming: the sampling loop's callbacks put events on the        *)
(* runner's queue (agent_runner.py:140-221), SessionManager.iter_events    *)
(* (session_manager.py:377-400) relays AgentRunner.iter_events             *)
(* (agent_runner.py:393-420) to one consumer.                              *)
(***************************************************************************)
\* _output_callback / _tool_output_callback: the running loop reports a block.
TaskOutput(r) ==
    /\ runners[r].task = "running"
    /\ runners[r].queued <= MaxEvents
    /\ runners' = [runners EXCEPT ![r] = QueueEvent(@, "text")]
    /\ UNCHANGED <<ext_vars, sm_result, fs_vars, dm_vars, db_vars, now, active_sessions,
                   sm_lock, num_sends, req, cleanup>>

\* session_manager.py:395-397: no entry, or no runner tracked; the generator
\* ends without an event.
IterEventsNothing(s) ==
    /\ stream.pc = "idle"
    /\ ~HasRunnerHandle(s)
    /\ stream' = [NoStream EXCEPT !.pc = "ended"]
    /\ UNCHANGED <<proc_vars, svc_vars, sm_result, fs_vars, dm_vars, db_vars, now, sm_vars, req,
                   cleanup>>

\* session_manager.py:399: the tracked runner's iterator is entered.
IterEventsBegin(s) ==
    /\ stream.pc = "idle"
    /\ HasRunnerHandle(s)
    /\ stream' = [NoStream EXCEPT !.pc = "waiting", !.run = active_sessions[s].runner]
    /\ UNCHANGED <<proc_vars, svc_vars, sm_result, fs_vars, dm_vars, db_vars, now, sm_vars, req,
                   cleanup>>

\* A wait that drops the event at the head of the queue when it times out.
TimeoutDropsEvent(queue) == IF queue = <<>> THEN queue ELSE Tail(queue)

\* The queue after asyncio.wait_for(self.event_queue.get(), timeout) has timed
\* out: the cancelled get() has taken nothing.
AfterTimeout(queue) == queue

\* agent_runner.py:408-416: get() returns the event at the head of the queue,
\* it is yielded, and the iteration ends after a MESSAGE_COMPLETE.
IterEventsYield ==
    /\ stream.pc = "waiting"
    /\ runners[stream.run].event_queue # <<>>
    /\ LET event == Head(runners[stream.run].event_queue)
       IN  stream' = [stream EXCEPT !.yielded = Append(@, event),
                                    !.pc = IF event.type = "message_complete"
                                           THEN "ended" ELSE "waiting"]
    /\ runners' = [runners EXCEPT ![stream.run].event_queue = Tail(@)]
    /\ UNCHANGED <<proc_vars, svc_vars, sm_result, fs_vars, dm_vars, db_vars, now, active_sessions,
                   sm_lock, num_sends, req, cleanup>>

\* agent_runner.py:418-420: the wait has timed out, an event may have arrived
\* at that very moment; a keepalive is yielded and the loop goes on.
IterEventsTimeout ==
    /\ stream.pc = "waiting"
    /\ Len(SelectSeq(stream.yielded, LAMBDA e : e = Keepalive)) < MaxKeepalives
    /\ stream' = [stream EXCEPT !.yielded = Append(@, Keepalive)]
    /\ runners' = [runners EXCEPT ![stream.run].event_queue = AfterTimeout(@)]
    /\ UNCHANGED <<proc_vars, svc_vars, sm_result, fs_vars, dm_vars, db_vars, now, active_sessions,
                   sm_lock, num_sends, req, cleanup>>

(***************************************************************************)
(* SessionManager.delete_session (session_manager.py:169-199); its callers *)
(* (routes/sessions.py:206, mcp/tools.py:362-376) pass no archived session.*)
(***************************************************************************)
\* No running task to cancel: the entry, if any, is removed at once.
DeleteBegin(q, s) ==
    /\ Starts(q)
    /\ Created(s)
    /\ status[s] # "archived"
    /\ sm_lock = "free"
    /\ ~(/\ active_sessions[s].present
         /\ active_sessions[s].runner # 0
         /\ runners[active_sessions[s].runner].task = "running")
    /\ active_sessions' = [active_sessions EXCEPT ![s] = NoActive]
    /\ SetReq(q, [Idle EXCEPT !.op = "delete", !.sid = s, !.pc = "destroy_display"])
    /\ UNCHANGED <<ext_vars, sm_result, fs_vars, dm_vars, db_vars, now, sm_lock, runners, num_sends, cleanup>>

\* The tracked task is running: it is cancelled and awaited, the lock held.
DeleteCancel(q, s) ==
    /\ Starts(q)
    /\ Created(s)
    /\ status[s] # "archived"
    /\ sm_lock = "free"
    /\ active_sessions[s].present
    /\ active_sessions[s].runner # 0
    /\ runners[active_sessions[s].runner].task = "running"
    /\ runners' = [runners EXCEPT ![active_sessions[s].runner].task = "cancelling"]
    /\ sm_lock' = q
    /\ SetReq(q, [Idle EXCEPT !.op = "delete", !.sid = s, !.pc = "delete_wait",
                              !.run = active_sessions[s].runner])
    /\ UNCHANGED <<ext_vars, sm_result, fs_vars, dm_vars, db_vars, now, active_sessions, num_sends, cleanup>>

DeleteUnwound(q) ==
    /\ req[q].pc = "delete_wait"
    /\ runners[req[q].run].task = "cancelled"
    /\ active_sessions' = [active_sessions EXCEPT ![req[q].sid] = NoActive]
    /\ sm_lock' = "free"
    /\ SetReq(q, [req[q] EXCEPT !.pc = "destroy_display"])
    /\ UNCHANGED <<ext_vars, sm_result, fs_vars, dm_vars, db_vars, now, runners, num_sends, cleanup>>

\* session_manager.py:196
ReqDestroyDisplayUnknown(q) ==
    /\ req[q].pc = "destroy_display"
    /\ DestroyDisplayUnknown(req[q].sid, q)
    /\ SetReq(q, [req[q] EXCEPT !.pc = "archive"])
    /\ UNCHANGED <<ext_vars, sm_result, fs_vars, db_vars, now, sm_vars, cleanup>>

ReqDestroyDisplayBegin(q) ==
    /\ req[q].pc = "destroy_display"
    /\ DestroyDisplayBegin(req[q].sid, q)
    /\ SetReq(q, [req[q] EXCEPT !.pc = "destroy_wait"])
    /\ UNCHANGED <<ext_vars, sm_result, fs_vars, db_vars, now, sm_vars, cleanup>>

ReqDestroyDisplayEnd(q) ==
    /\ dm_lock.caller = q
    /\ DestroyDisplayEnd
    /\ SetReq(q, [req[q] EXCEPT !.pc = "archive"])
    /\ UNCHANGED <<ext_vars, sm_result, fs_vars, db_vars, now, sm_vars, cleanup>>

\* session_manager.py:199, SessionRepository.delete_session
DeleteArchive(q) ==
    /\ req[q].pc = "archive"
    /\ status' = UpdateSessionStatus(status, req[q].sid, "archived")
    /\ SetReq(q, Idle)
    /\ UNCHANGED <<ext_vars, sm_result, fs_vars, dm_vars, messages, last_activity, session_display, now, sm_vars,
                   cleanup>>

(***************************************************************************)
(* SessionCleanupService._cleanup_expired_sessions / force_cleanup         *)
(* (session_cleanup.py:124-205): one pass at a time.                       *)
(***************************************************************************)
Tick ==
    /\ now < MaxTime
    /\ now' = now + 1
    /\ UNCHANGED <<ext_vars, sm_result, fs_vars, dm_vars, db_vars, sm_vars, req, cleanup>>

\* Lines 131-147: the expired sessions are read once; the first is taken.
CleanupBegin(s) ==
    /\ cleanup.pc = "idle"
    /\ s \in SessionsInactiveSince(now - TTL)
    /\ cleanup' = [pc |-> "destroy_display",
                   expired |-> SessionsInactiveSince(now - TTL),
                   pending |-> SessionsInactiveSince(now - TTL) \ {s}, cur |-> s,
                   failed |-> {}]
    /\ UNCHANGED <<ext_vars, sm_result, fs_vars, dm_vars, db_vars, now, sm_vars, req>>

\* Line 150
CleanupDestroyDisplayUnknown ==
    /\ cleanup.pc = "destroy_display"
    /\ DestroyDisplayUnknown(cleanup.cur, "cleanup")
    /\ cleanup' = [cleanup EXCEPT !.pc = "destroy_filesystem"]
    /\ UNCHANGED <<ext_vars, sm_result, fs_vars, db_vars, now, sm_vars, req>>

CleanupDestroyDisplayBegin ==
    /\ cleanup.pc = "destroy_display"
    /\ DestroyDisplayBegin(cleanup.cur, "cleanup")
    /\ cleanup' = [cleanup EXCEPT !.pc = "destroy_wait"]
    /\ UNCHANGED <<ext_vars, sm_result, fs_vars, db_vars, now, sm_vars, req>>

CleanupDestroyDisplayEnd ==
    /\ dm_lock.caller = "cleanup"
    /\ DestroyDisplayEnd
    /\ cleanup' = [cleanup EXCEPT !.pc = "destroy_filesystem"]
    /\ UNCHANGED <<ext_vars, sm_result, fs_vars, db_vars, now, sm_vars, req>>

\* Lines 153-154, with settings.filesystem_isolation_enabled as configured by
\* default.
CleanupDestroyFilesystemUnknown ==
    /\ cleanup.pc = "destroy_filesystem"
    /\ DestroyFilesystemUnknown("cleanup", cleanup.cur)
    /\ cleanup' = [cleanup EXCEPT !.pc = "archive"]
    /\ UNCHANGED <<ext_vars, num_calls, dm_vars, db_vars, now, sm_vars, sm_result, req>>

CleanupDestroyFilesystemBegin ==
    /\ cleanup.pc = "destroy_filesystem"
    /\ DestroyFilesystemBegin("cleanup", cleanup.cur)
    /\ cleanup' = [cleanup EXCEPT !.pc = "destroy_filesystem_wait"]
    /\ UNCHANGED <<ext_vars, num_calls, dm_vars, db_vars, now, sm_vars, sm_result, req>>

CleanupDestroyFilesystemEnd ==
    /\ cleanup.pc = "destroy_filesystem_wait"
    /\ DestroyFilesystemEnd("cleanup")
    /\ cleanup' = [cleanup EXCEPT !.pc = "archive"]
    /\ UNCHANGED <<ext_vars, num_calls, dm_vars, db_vars, now, sm_vars, sm_result, req>>

\* Line 157, then the next session of the batch, if any; the pass ends after
\* the last one.
NextOfBatch(pending, s) ==
    IF pending = {} THEN [NoCleanup EXCEPT !.failed = cleanup.failed]
    ELSE [cleanup EXCEPT !.pc = "destroy_display", !.pending = pending \ {s},
                         !.cur = s]

CleanupArchive(s) ==
    /\ cleanup.pc = "archive"
    /\ IF cleanup.pending = {} THEN s = NoSession ELSE s \in cleanup.pending
    /\ status' = UpdateSessionStatus(status, cleanup.cur, "archived")
    /\ cleanup' = NextOfBatch(cleanup.pending, s)
    /\ UNCHANGED <<ext_vars, sm_result, fs_vars, dm_vars, messages, last_activity, session_display, now, sm_vars,
                   req>>

\* A pass that gives up at the first failure.
AbortAfterFailure(next) == [NoCleanup EXCEPT !.failed = cleanup.failed \cup {cleanup.cur}]

\* Lines 164-167: the failure is logged and the loop goes on.
AfterFailure(next) == [next EXCEPT !.failed = cleanup.failed \cup {cleanup.cur}]

\* Line 157 raises: the store has refused the write.
CleanupArchiveFail(s) ==
    /\ cleanup.pc = "archive"
    /\ IF cleanup.pending = {} THEN s = NoSession ELSE s \in cleanup.pending
    /\ cleanup' = AfterFailure(NextOfBatch(cleanup.pending, s))
    /\ UNCHANGED <<ext_vars, sm_result, fs_vars, dm_vars, db_vars, now, sm_vars, req>>

(***************************************************************************)
(* SessionCleanupService.start / stop / _cleanup_loop                      *)
(* (session_cleanup.py:63-122).  The lifespan of the application calls     *)
(* start() and stop() one after the other (main.py:89, 100): a call begins *)
(* when no other is in progress.  A loop task is suspended in the sleep of *)
(* line 114 ("sleep"), in the read of line 139 ("tick"), somewhere in the  *)
(* batch ("pass") or in the sleep of line 122 ("error_sleep").             *)
(***************************************************************************)
LoopAlive(i) == loops[i].state \notin {"none", "done"}

\* The next task asyncio.create_task would make.
NewLoop(i) == loops[i].state = "none" /\ \A j \in 1..(i - 1) : loops[j].state # "none"

\* A start() that does not look at _running.
StartAlways(running) == TRUE

\* Lines 69-71: start() returns at once while the service is running.
StartCreates(running) == ~running

\* Lines 73-74
Start ==
    /\ stop_call = NoStop
    /\ \E i \in LoopTasks :
           /\ NewLoop(i)
           /\ IF StartCreates(service.running)
              THEN /\ service' = [running |-> TRUE, task |-> i]
                   /\ loops' = [loops EXCEPT ![i] = [NoLoop EXCEPT !.state = "sleep"]]
              ELSE UNCHANGED <<service, loops>>
    /\ UNCHANGED <<stop_call, stream, proc_vars, sm_result, fs_vars, dm_vars, db_vars, now, sm_vars,
                   req, cleanup>>

\* Lines 84-93: stop() returns at once while the service is stopped; else the
\* flag is cleared, the task is cancelled and awaited.
StopBegin ==
    /\ stop_call = NoStop
    /\ IF ~service.running
       THEN UNCHANGED <<service, loops, stop_call>>
       ELSE /\ service' = [service EXCEPT !.running = FALSE]
            /\ IF service.task # 0
               THEN /\ loops' = [loops EXCEPT ![service.task].cancelled =
                                                  LoopAlive(service.task)]
                    /\ stop_call' = [pc |-> "awaiting", task |-> service.task]
               ELSE UNCHANGED <<loops, stop_call>>
    /\ UNCHANGED <<stream, proc_vars, sm_result, fs_vars, dm_vars, db_vars, now, sm_vars, req,
                   cleanup>>

\* Lines 94-97: the task has ended; its CancelledError is swallowed.
StopEnd ==
    /\ stop_call.pc = "awaiting"
    /\ loops[stop_call.task].state = "done"
    /\ service' = [service EXCEPT !.task = 0]
    /\ stop_call' = NoStop
    /\ UNCHANGED <<loops, stream, proc_vars, sm_result, fs_vars, dm_vars, db_vars, now, sm_vars, req,
                   cleanup>>

SetLoop(i, state) == loops' = [loops EXCEPT ![i].state = state]

\* Line 111, when the loop comes back to it.
WhileRunning == IF service.running THEN "sleep" ELSE "done"

\* Lines 114-116: the sleep is over; the pass is entered if the service is
\* still running.
LoopWakes(i) ==
    /\ loops[i].state = "sleep"
    /\ ~loops[i].cancelled
    /\ SetLoop(i, IF service.running THEN "tick" ELSE "done")
    /\ UNCHANGED <<service, stop_call, stream, proc_vars, sm_result, fs_vars, dm_vars, db_vars, now,
                   sm_vars, req, cleanup>>

\* Lines 141-143: nothing has expired.
LoopTickNothing(i) ==
    /\ loops[i].state = "tick"
    /\ ~loops[i].cancelled
    /\ cleanup.pc = "idle"
    /\ SessionsInactiveSince(now - TTL) = {}
    /\ loops' = [loops EXCEPT ![i].state = WhileRunning, ![i].failed = FALSE]
    /\ UNCHANGED <<service, stop_call, stream, proc_vars, sm_result, fs_vars, dm_vars, db_vars, now,
                   sm_vars, req, cleanup>>

\* Lines 145-147, as in CleanupBegin.
LoopTickBegin(i, s) ==
    /\ loops[i].state = "tick"
    /\ ~loops[i].cancelled
    /\ cleanup.pc = "idle"
    /\ s \in SessionsInactiveSince(now - TTL)
    /\ cleanup' = [pc |-> "destroy_display",
                   expired |-> SessionsInactiveSince(now - TTL),
                   pending |-> SessionsInactiveSince(now - TTL) \ {s}, cur |-> s,
                   failed |-> {}]
    /\ loops' = [loops EXCEPT ![i].state = "pass", ![i].failed = FALSE]
    /\ UNCHANGED <<service, stop_call, stream, proc_vars, sm_result, fs_vars, dm_vars, db_vars, now,
                   sm_vars, req>>

\* The pass has returned (line 169).
LoopPassEnd(i) ==
    /\ loops[i].state = "pass"
    /\ ~loops[i].cancelled
    /\ cleanup.pc = "idle"
    /\ SetLoop(i, WhileRunning)
    /\ UNCHANGED <<service, stop_call, stream, proc_vars, sm_result, fs_vars, dm_vars, db_vars, now,
                   sm_vars, req, cleanup>>

\* A loop that ends at the first error it sees.
EndsOnError(caught) == "done"

\* An unexpected error during the tick, in the read of line 139 or when the
\* store's session is closed after the batch.  Inside the try of line 134 it
\* is logged at line 174 and the pass returns; anywhere else it reaches line
\* 120, where the loop logs it and sleeps before the next turn.
OnTickError(caught) == IF caught THEN WhileRunning ELSE "error_sleep"

LoopTickError(i, caught) ==
    /\ loops[i].state \in {"tick", "pass"}
    /\ ~loops[i].cancelled
    /\ cleanup.pc = "idle"
    /\ loops' = [loops EXCEPT ![i].state = OnTickError(caught), ![i].failed = TRUE]
    /\ UNCHANGED <<service, stop_call, stream, proc_vars, sm_result, fs_vars, dm_vars, db_vars, now,
                   sm_vars, req, cleanup>>

\* Line 122 is over.
LoopErrorSleepEnd(i) ==
    /\ loops[i].state = "error_sleep"
    /\ ~loops[i].cancelled
    /\ SetLoop(i, WhileRunning)
    /\ UNCHANGED <<service, stop_call, stream, proc_vars, sm_result, fs_vars, dm_vars, db_vars, now,
                   sm_vars, req, cleanup>>

\* Lines 117-118: CancelledError is raised where the task is suspended and
\* ends the loop.  A pass in progress is abandoned where it stands, and the
\* Display Manager's lock is released on the way out if the pass holds it.
LoopCancelled(i) ==
    /\ LoopAlive(i)
    /\ loops[i].cancelled
    /\ SetLoop(i, "done")
    /\ cleanup' = IF loops[i].state = "pass" THEN NoCleanup ELSE cleanup
    /\ dm_lock' = IF loops[i].state = "pass" /\ dm_lock.caller = "cleanup"
                  THEN DmFree ELSE dm_lock
    /\ UNCHANGED <<service, stop_call, stream, proc_vars, sm_result, fs_vars, displays,
                   used_display_nums, next_display_num, token_file, dm_result, db_vars,
                   now, sm_vars, req>>

(***************************************************************************)
(* The steps of the service, by operation.                                 *)
(***************************************************************************)
\* At most `limit` sessions are created.
CreateSessionSteps(limit) ==
    \/ \E q \in Reqs, s \in Sessions : CreateSessionBegin(q, s, limit)
    \/ \E q \in Reqs : ReqCreateDisplayBegin(q)
    \/ \E q \in Reqs : ReqCreateDisplayOk(q)
    \/ \E q \in Reqs : ReqCreateDisplayFail(q)
    \/ \E q \in Reqs : CreateSessionUpdateDisplay(q)
    \/ \E q \in Reqs : CreateSessionRefresh(q)
    \/ \E q \in Reqs : CreateSessionRegister(q)

\* At most `limit` messages are accepted.
SendSteps(limit) ==
    \/ \E q \in Reqs, s \in Sessions, via \in {"api", "service"} :
           SendLoad(q, s, via, limit)
    \/ \E q \in Reqs : SendConflict(q)
    \/ \E q \in Reqs : SendReject(q)
    \/ \E q \in Reqs : SendAddMessage(q)
    \/ \E q \in Reqs : SendUpdateActivity(q)
    \/ \E q \in Reqs : SendSetProcessing(q)
    \/ \E q \in Reqs : SendLoadHistory(q)
    \/ \E q \in Reqs : SendRegister(q)
    \/ \E q \in Reqs : SendFail(q)
    \/ \E q \in Reqs : ReqDone(q)

ExecutionSteps ==
    \/ \E r \in Runs : TaskSucceed(r)
    \/ \E r \in Runs : TaskAgentRaises(r)
    \/ \E r \in Runs : HandlerPersist(r)
    \/ \E r \in Runs : HandlerSetStatus(r)
    \/ \E r \in Runs, written \in BOOLEAN : HandlerPersistFail(r, written)
    \/ \E r \in Runs : HandlerFinally(r)

\* Cancellation, by the cancel route or by delete_session.
CancelSteps ==
    \/ \E r \in Runs : TaskUnwind(r)
    \/ \E r \in Runs : HandlerCancelled(r)
    \/ \E q \in Reqs, s \in Sessions : CancelNothing(q, s)
    \/ \E q \in Reqs, s \in Sessions : CancelBegin(q, s)
    \/ \E q \in Reqs, s \in Sessions : CancelEnded(q, s)
    \/ \E q \in Reqs : CancelUnwound(q)
    \/ \E q \in Reqs : CancelSetActive(q)

DeleteSteps ==
    \/ \E q \in Reqs, s \in Sessions : DeleteBegin(q, s)
    \/ \E q \in Reqs, s \in Sessions : DeleteCancel(q, s)
    \/ \E q \in Reqs : DeleteUnwound(q)
    \/ \E q \in Reqs : ReqDestroyDisplayUnknown(q)
    \/ \E q \in Reqs : ReqDestroyDisplayBegin(q)
    \/ \E q \in Reqs : ReqDestroyDisplayEnd(q)
    \/ \E q \in Reqs : DeleteArchive(q)

PassSteps ==
    \/ \E s \in Sessions : CleanupBegin(s)
    \/ CleanupDestroyDisplayUnknown
    \/ CleanupDestroyDisplayBegin
    \/ CleanupDestroyDisplayEnd
    \/ CleanupDestroyFilesystemUnknown
    \/ \E s \in Sessions \cup {NoSession} : CleanupArchive(s)

CleanupSteps ==
    \/ Tick
    \/ PassSteps

(***************************************************************************)
(* The service: request handlers, execution tasks, completion handlers and *)
(* the cleanup pass, interleaved at their suspension points.               *)
(***************************************************************************)
Next ==
    \/ CreateSessionSteps(MaxSessions)
    \/ SendSteps(MaxRuns)
    \/ ExecutionSteps
    \/ CancelSteps
    \/ DeleteSteps
    \/ CleanupSteps

Spec == Init /\ [][Next]_vars

(***************************************************************************)
(* The service with MaxLifecycleRuns messages at most: every operation,    *)
(* the cleanup pass and the clock around them.                             *)
(***************************************************************************)
NextLifecycle ==
    \/ CreateSessionSteps(MaxSessions)
    \/ SendSteps(MaxLifecycleRuns)
    \/ ExecutionSteps
    \/ CancelSteps
    \/ DeleteSteps
    \/ CleanupSteps

SpecLifecycle == Init /\ [][NextLifecycle]_vars

(***************************************************************************)
(* The cleanup pass over up to MaxBatch sessions; requests are served one  *)
(* at a time.  In SpecCleanup messages are sent and executed beside the    *)
(* pass, and a request is served in less than a tick; in SpecReclaim       *)
(* filesystems are created for the sessions by a caller of the Filesystem  *)
(* Manager, MaxFilesystems calls at most.                                  *)
(***************************************************************************)
SessionFilesystemSteps ==
    \/ \E s \in Sessions :
          /\ Created(s)
          /\ num_calls < MaxFilesystems
          /\ FsStarts("c1")
          /\ CreateFilesystemBegin("c1", s)
    \/ \E ok \in BOOLEAN : CreateFilesystemProbe("c1", ok) /\ FsGoesOn
    \/ CreateFilesystemMountOk("c1") /\ FsGoesOn
    \/ CreateFilesystemMountFail("c1") /\ FsGoesOn
    \/ CleanupDestroyFilesystemBegin
    \/ CleanupDestroyFilesystemEnd

OneCreateSteps ==
    \/ \E s \in Sessions : CreateSessionBegin("q1", s, MaxBatch)
    \/ ReqCreateDisplayBegin("q1")
    \/ ReqCreateDisplayOk("q1")
    \/ ReqCreateDisplayFail("q1")
    \/ CreateSessionUpdateDisplay("q1")
    \/ CreateSessionRefresh("q1")
    \/ CreateSessionRegister("q1")

OneSendSteps ==
    \/ \E s \in Sessions, via \in {"api", "service"} :
           SendLoad("q1", s, via, MaxLifecycleRuns)
    \/ SendConflict("q1")
    \/ SendReject("q1")
    \/ SendAddMessage("q1")
    \/ SendUpdateActivity("q1")
    \/ SendSetProcessing("q1")
    \/ SendLoadHistory("q1")
    \/ SendRegister("q1")
    \/ SendFail("q1")
    \/ ReqDone("q1")

\* A request is served well within the TTL: the clock does not advance
\* while a request handler is at work.  Executions go on across ticks.
SettledTick == Tick /\ \A q \in Reqs : req[q] = Idle

NextCleanup ==
    \/ OneCreateSteps
    \/ OneSendSteps
    \/ ExecutionSteps
    \/ SettledTick
    \/ PassSteps

SpecCleanup == Init /\ [][NextCleanup]_vars

NextReclaim ==
    \/ OneCreateSteps
    \/ SessionFilesystemSteps
    \/ CleanupSteps
    \/ \E s \in Sessions \cup {NoSession} : CleanupArchiveFail(s)

SpecReclaim == Init /\ [][NextReclaim]_vars

(***************************************************************************)
(* The cleanup service from start() to stop(): sessions are created and    *)
(* expire, and the passes are those of the loop.                           *)
(***************************************************************************)
BatchSteps ==
    \/ CleanupDestroyDisplayUnknown
    \/ CleanupDestroyDisplayBegin
    \/ CleanupDestroyDisplayEnd
    \/ CleanupDestroyFilesystemUnknown
    \/ \E s \in Sessions \cup {NoSession} : CleanupArchive(s)
    \/ \E s \in Sessions \cup {NoSession} : CleanupArchiveFail(s)

LoopSteps(i) ==
    \/ LoopWakes(i)
    \/ LoopTickNothing(i)
    \/ \E s \in Sessions : LoopTickBegin(i, s)
    \/ LoopPassEnd(i)
    \/ LoopErrorSleepEnd(i)
    \/ LoopCancelled(i)

NextService ==
    \/ OneCreateSteps
    \/ SettledTick
    \/ Start
    \/ StopBegin
    \/ StopEnd
    \/ \E i \in LoopTasks : LoopSteps(i)
    \/ \E i \in LoopTasks, caught \in BOOLEAN : LoopTickError(i, caught)
    \/ BatchSteps

SpecService == Init /\ [][NextService]_vars

(***************************************************************************)
(* Event streaming: one execution of a session of the batch, with one      *)
(* consumer of its events.                                                 *)
(***************************************************************************)
StreamSteps ==
    \/ \E s \in Sessions : IterEventsNothing(s)
    \/ \E s \in Sessions : IterEventsBegin(s)
    \/ IterEventsYield
    \/ IterEventsTimeout

NextEvents ==
    \/ OneCreateSteps
    \/ OneSendSteps
    \/ ExecutionSteps
    \/ \E r \in Runs : TaskOutput(r)
    \/ StreamSteps

SpecEvents == Init /\ [][NextEvents]_vars

(***************************************************************************)
(* Messages only: sessions are created and messages sent, executed and     *)
(* completed; nothing is cancelled, deleted or cleaned up.                 *)
(***************************************************************************)
NextMessages ==
    \/ CreateSessionSteps(MaxSessions)
    \/ SendSteps(MaxRuns)
    \/ ExecutionSteps

SpecMessages == Init /\ [][NextMessages]_vars

(***************************************************************************)
(* Completion: the request handlers around MaxLifecycleRuns executions,    *)
(* without the cleanup pass.  The event loop resumes a completion handler  *)
(* whose awaited task or store call has ended.                             *)
(***************************************************************************)
NextCompletion ==
    \/ CreateSessionSteps(MaxSessions)
    \/ SendSteps(MaxLifecycleRuns)
    \/ ExecutionSteps
    \/ CancelSteps
    \/ DeleteSteps

\* The steps that continue an operation already begun.
RequestContinues(q) ==
    \/ ReqCreateDisplayBegin(q) \/ ReqCreateDisplayOk(q) \/ ReqCreateDisplayFail(q)
    \/ CreateSessionUpdateDisplay(q) \/ CreateSessionRefresh(q)
    \/ CreateSessionRegister(q)
    \/ SendConflict(q) \/ SendReject(q) \/ SendAddMessage(q) \/ SendUpdateActivity(q)
    \/ SendSetProcessing(q) \/ SendLoadHistory(q) \/ SendRegister(q) \/ SendFail(q)
    \/ ReqDone(q)
    \/ CancelUnwound(q) \/ CancelSetActive(q)
    \/ DeleteUnwound(q) \/ ReqDestroyDisplayUnknown(q) \/ ReqDestroyDisplayBegin(q)
    \/ ReqDestroyDisplayEnd(q) \/ DeleteArchive(q)

HandlerResumes(r) ==
    HandlerPersist(r) \/ \E written \in BOOLEAN : HandlerPersistFail(r, written)

\* The agent loop itself may go on for ever; a cancelled task unwinds, and a
\* handler whose task has ended goes on to its end.
ExecutionContinues(r) ==
    \/ TaskUnwind(r)
    \/ HandlerResumes(r) \/ HandlerSetStatus(r) \/ HandlerCancelled(r)
    \/ HandlerFinally(r)

FairCompletion ==
    /\ Init
    /\ [][NextCompletion]_vars
    /\ \A q \in Reqs : WF_vars(RequestContinues(q))
    /\ \A r \in Runs : WF_vars(ExecutionContinues(r))

\* The event loop runs every task that can go on: timers expire, the store
\* and the managers answer, a cancelled task unwinds.  Errors need not
\* happen, and nobody need call start() or stop().
FairService ==
    /\ SpecService
    /\ \A i \in LoopTasks : WF_vars(LoopSteps(i))
    /\ WF_vars(BatchSteps)
    /\ WF_vars(StopEnd)
    /\ WF_vars(RequestContinues("q1"))

(***************************************************************************)
(* Properties of the Display Manager.                                      *)
(***************************************************************************)
\* C1: no two sessions that hold a display share a display number or a VNC
\* port, and each held display's VNC port is vnc_base_port + its number,
\* whatever the interleaving of create_display and destroy_display calls.
DisplaysDistinct ==
    /\ \A s \in Sessions, t \in Sessions :
           (s # t /\ HasDisplay(s) /\ HasDisplay(t)) =>
               /\ displays[s].display_num # displays[t].display_num
               /\ displays[s].vnc_port # displays[t].vnc_port
    /\ \A s \in Sessions :
           HasDisplay(s) => displays[s].vnc_port = VncBasePort + displays[s].display_num

\* Two sessions hold displays, one of them created after a release.
TwoDisplaysHeld ==
    /\ \A s \in Sessions : HasDisplay(s)
    /\ next_display_num > Cardinality(Sessions) + 1

\* The lowest number from 1 on that is not in the set.
LowestFree(held) ==
    CHOOSE n \in 1..(Cardinality(held) + 1) :
        n \notin held /\ \A m \in 1..(n - 1) : m \in held

\* C10: the number create_display assigns is the lowest number >= 1 that no
\* session holds, so a released number is assigned again when it is the
\* lowest free one.
AssignsLowestFree ==
    dm_lock.op = "create" => dm_lock.display_num = LowestFree(HeldNums)

(***************************************************************************)
(* Properties of the Session Manager.                                      *)
(***************************************************************************)
\* C2: for every session at most one execution task is running at any time,
\* under any interleaving of send_message calls and completion handlers.
OneTaskPerSession == \A s \in Sessions : Cardinality(RunningTasks(s)) <= 1

\* A send_message call for the session has started and not yet answered.
SendMidOperation(s) ==
    \E q \in Reqs : req[q].op = "send" /\ req[q].sid = s /\ req[q].pc \notin Terminal

\* The route around cancel_processing has started and not yet answered.
CancelMidOperation(s) == \E q \in Reqs : req[q].op = "cancel" /\ req[q].sid = s

\* An execution is in flight: its task was started and its completion
\* handler has not finished.
ExecutionInFlight(s) ==
    \E r \in Runs : runners[r].sid = s /\ runners[r].handler \in {"await", "set_status", "finally"}

\* A completion handler of the session is at work: its task has ended and it
\* has not finished.
HandlerMidOperation(s) ==
    \E r \in Runs : /\ runners[r].sid = s
                     /\ runners[r].handler \in {"await", "set_status", "finally"}
                     /\ ~TaskRunning(r)

\* C3: whenever the persisted status is PROCESSING and no send_message call
\* for the session is mid-operation, an execution of the session is in flight.
ProcessingHasExecution ==
    \A s \in Sessions :
        (status[s] = "processing" /\ ~SendMidOperation(s)) => ExecutionInFlight(s)

\* C4: whenever no send_message, cancel_processing or completion handler is
\* mid-operation for a session, its persisted status is PROCESSING if and
\* only if is_session_processing is true.
SignalsAgree ==
    \A s \in Sessions :
        (~SendMidOperation(s) /\ ~CancelMidOperation(s) /\ ~HandlerMidOperation(s)) =>
            ((status[s] = "processing") <=> IsSessionProcessing(s))

\* C5: once the persisted status of a session is ARCHIVED, no step changes it.
ArchivedIsTerminal ==
    [][\A s \in Sessions : status[s] = "archived" => status'[s] = "archived"]_vars

\* A completion handler of the session failed to store its results.
StoreFailed(s) == \E r \in Runs : runners[r].sid = s /\ runners[r].persist_failed

\* C6: a send_message call that loaded the session with status ACTIVE returns
\* with the persisted status PROCESSING, is_session_processing true and
\* exactly one new execution task started (no store call having failed).
AcceptedSendReturnsProcessing ==
    [][\A q \in Reqs :
          (/\ req[q].op = "send"
           /\ req[q].loaded = "active"
           /\ ~StoreFailed(req[q].sid)
           /\ req[q].pc = "register"
           /\ req'[q].pc = "returned") =>
              /\ status'[req[q].sid] = "processing"
              /\ active_sessions'[req[q].sid].present
              /\ active_sessions'[req[q].sid].is_processing
              /\ Cardinality({r \in Runs : /\ runners[r].task = "none"
                                           /\ runners'[r].task = "running"
                                           /\ runners'[r].sid = req[q].sid}) = 1]_vars

\* C8: when the agent loop of an execution raised, the persisted status is
\* ERROR once the completion handler of that execution has run (no store
\* call having failed).
FailedExecutionEndsInError ==
    [][\A r \in Runs :
          (/\ runners[r].outcome = "error"
           /\ ~runners[r].persist_failed
           /\ runners[r].handler = "finally"
           /\ runners'[r].handler = "done") =>
              status'[runners[r].sid] = "error"]_vars

\* C9: send_message on a session object whose status is PROCESSING or
\* ARCHIVED never gets past its validation, and the step that raises the
\* state error changes no message, last_activity, status, ActiveSession
\* entry or task.
RejectedSendChangesNothing ==
    /\ [](\A q \in Reqs :
             (req[q].op = "send" /\ req[q].loaded \in {"processing", "archived"}) =>
                 req[q].pc \in {"validate", "rejected"})
    /\ [][\A q \in Reqs :
             (req[q].pc = "validate" /\ req'[q].pc = "rejected") =>
                 UNCHANGED <<messages, last_activity, status, active_sessions, runners,
                             num_sends>>]_vars

\* Two calls have been rejected, one for each of the two statuses.
BothRejections ==
    \E q \in Reqs, p \in Reqs :
        /\ req[q].pc = "rejected" /\ req[q].loaded = "processing"
        /\ req[p].pc = "rejected" /\ req[p].loaded = "archived"

\* The execution of r ended successfully and its handler has yet to resume.
Succeeded(r) ==
    /\ runners[r].task = "done"
    /\ runners[r].outcome = "completed"
    /\ runners[r].handler = "await"

\* The handler of r has just written ACTIVE, and a send_message on the
\* session as stored passes the validation.
SetBackToActive(r) ==
    /\ runners[r].handler = "finally"
    /\ ~runners[r].persist_failed
    /\ status[runners[r].sid] = "active"
    /\ ~SendRejected(status[runners[r].sid])

Destroyed(r) == runners[r].sid # NoSession /\ status[runners[r].sid] = "archived"

TokenLinesOf(s) == {i \in DOMAIN token_file : StartsWithSession(token_file[i], s)}

CreateDisplayEnds(s) == dm_lock.op = "create" /\ dm_lock.sid = s /\ dm_lock' = DmFree

CreatedWhole(s, n) ==
    /\ dm_result = Returned("create_display", s, "DisplayInfo")
    /\ HasDisplay(s)
    /\ displays[s].display_num = n
    /\ n \in used_display_nums

FailedClean(s, n) ==
    /\ dm_result = Returned("create_display", s, "RuntimeError")
    /\ ~HasDisplay(s)
    /\ n \notin used_display_nums
    /\ TokenLinesOf(s) = {}

FailedCreateLeavesNothing ==
    [][\A s \in Sessions : \A n \in 1..MaxDisplayNum :
          CreateDisplayEnds(s) /\ dm_lock.display_num = n
              => (CreatedWhole(s, n) \/ FailedClean(s, n))']_vars

\* A create_display call has failed while another session holds a display.
CreateFailedBesideDisplay ==
    /\ dm_lock = DmFree
    /\ dm_result.op = "create_display" /\ dm_result.value = "RuntimeError"
    /\ ~HasDisplay(dm_result.sid)
    /\ \E s \in Sessions : HasDisplay(s)

(***************************************************************************)
(* C13.  destroy_display on a session that holds no display, and           *)
(* destroy_filesystem on a session that has no tracked filesystem, return  *)
(* False and leave the state of their manager as it was: the tracked maps, *)
(* the used numbers, the counter, the token file, the lock, the directory  *)
(* trees with their mounts, the archives, the cached probe answer.         *)
(***************************************************************************)
\* destroy_display(s) has just returned while s held no display.
DestroyDisplayReturned(s) ==
    /\ dm_result' # dm_result
    /\ dm_result' .op = "destroy_display"
    /\ dm_result' .sid = s
    /\ ~HasDisplay(s)

\* destroy_filesystem(s) has just returned while s had no filesystem.
DestroyFilesystemReturned(s) ==
    /\ num_calls' # num_calls
    /\ fs_calls' = fs_calls
    /\ fs_result' .op = "destroy_filesystem"
    /\ fs_result' .sid = s
    /\ ~HasFilesystem(s)

DestroyUntrackedChangesNothing ==
    /\ [][\A s \in Sessions : DestroyDisplayReturned(s) =>
              /\ dm_result' .value = "False"
              /\ UNCHANGED <<displays, used_display_nums, next_display_num, dm_lock,
                             token_file>>]_vars
    /\ [][\A s \in Sessions : DestroyFilesystemReturned(s) =>
              /\ fs_result' .value = "False"
              /\ UNCHANGED <<filesystems, fs_lock, overlayfs_available, session_dirs,
                             snapshots>>]_vars

\* Both calls have returned False for a session that has neither, while
\* another session holds a display and a mounted filesystem.
BothDestroysReturnedFalse ==
    /\ dm_result.op = "destroy_display" /\ dm_result.value = "False"
    /\ fs_result.op = "destroy_filesystem" /\ fs_result.value = "False"
    /\ dm_result.sid = fs_result.sid
    /\ \E s \in Sessions :
          /\ HasDisplay(s)
          /\ HasFilesystem(s)
          /\ session_dirs[SessionPaths(s).root].mounted

(***************************************************************************)
(* Properties of the cleanup pass.                                         *)
(***************************************************************************)
\* The pass takes its last step.
PassFinishes == cleanup.pc # "idle" /\ cleanup' .pc = "idle"

\* C14: when a cleanup pass has finished, every session it found expired
\* (last_activity older than the TTL when the pass read the store) holds no
\* display, has no tracked filesystem and has the persisted status ARCHIVED;
\* and the pass archives a session only after it has destroyed the
\* session's display and filesystem.
ExpiredSessionsDestroyedByPass ==
    /\ [][PassFinishes =>
              \A s \in cleanup.expired :
                  /\ displays'[s] = NoDisplay
                  /\ filesystems'[s] = NoFilesystem
                  /\ status'[s] = "archived"]_vars
    /\ [][\A s \in Sessions :
              (cleanup.cur = s /\ cleanup' # cleanup /\ status'[s] # status[s])
                  => ~HasDisplay(s) /\ ~HasFilesystem(s)]_vars

\* The session exists and its last_activity is not older than the TTL.
WithinTTL(s) == status[s] # "none" /\ s \notin SessionsInactiveSince(now - TTL)

\* What a session has: display, filesystem, ActiveSession entry, executions
\* and persisted record.
SessionState(s) ==
    <<displays[s], filesystems[s], active_sessions[s],
      [r \in Runs |-> IF runners[r].sid = s THEN runners[r] ELSE NoRunner],
      status[s], messages[s], last_activity[s], session_display[s]>>

\* C15: no step of a cleanup pass changes anything of a session whose
\* last_activity is within the TTL: its display, filesystem, ActiveSession
\* entry, in-flight execution and persisted record stay as they are.
PassLeavesSessionsWithinTTL ==
    [][cleanup' # cleanup =>
          \A s \in Sessions : WithinTTL(s) => SessionState(s)' = SessionState(s)]_vars

(***************************************************************************)
(* C16: cancel_processing(s) returns True exactly when the entry of s      *)
(* tracks a runner; when it returns True the tracked task runs no more and *)
(* is_session_processing(s) is false; when it returns False nothing but    *)
(* the returned value has changed.                                         *)
(***************************************************************************)
CancelReturns(s, value) ==
    /\ sm_result' # sm_result
    /\ sm_result' = Returned("cancel_processing", s, value)

CancelProcessingContract ==
    [][\A s \in Sessions :
        /\ CancelReturns(s, "True") =>
              /\ HasRunnerHandle(s)
              /\ \A r \in Runs : active_sessions[s].runner = r => ~TaskRunning(r)'
              /\ ~IsSessionProcessing(s)'
        /\ CancelReturns(s, "False") =>
              /\ ~HasRunnerHandle(s)
              /\ UNCHANGED <<ext_vars, fs_vars, dm_vars, db_vars, now, sm_vars, req, cleanup>>
    ]_vars

\* A cancellation has returned True after the task it stopped had unwound, and
\* the session runs nothing.
CancelledARunningTask ==
    /\ sm_result.op = "cancel_processing"
    /\ sm_result.value = "True"
    /\ \E r \in Runs : runners[r].sid = sm_result.sid /\ runners[r].task = "cancelled"
    /\ ~IsSessionProcessing(sm_result.sid)

(***************************************************************************)
(* C17: destroy_display(s) starts on a tracked display, from               *)
(* delete_session or from the cleanup pass, only when no execution task of *)
(* s is running.                                                           *)
(***************************************************************************)
DestroyDisplayStarts(s) ==
    /\ dm_lock.op # "destroy"
    /\ dm_lock'.op = "destroy"
    /\ dm_lock'.sid = s

DisplayDestroyedAfterUnwinding ==
    [][\A s \in Sessions : DestroyDisplayStarts(s) => RunningTasks(s) = {}]_vars

(***************************************************************************)
(* C18: a file written below the merged root of one session is visible     *)
(* neither below the merged root of another session nor in the base        *)
(* directory, whatever create, destroy, archive and restore calls and      *)
(* writes have been interleaved.                                           *)
(***************************************************************************)
WrittenBy(files, s) == {f \in files : f.by = s}

FilesystemsIsolated ==
    \A a \in Sessions :
        /\ WrittenBy(session_dirs[BaseDir].upper, a) = {}
        /\ \A b \in Sessions \ {a} : WrittenBy(MergedView(b), a) = {}

\* Both sessions see a file of their own below their merged roots, one of them
\* after its filesystem has been archived and restored.
BothSessionsWroteFiles ==
    /\ \A s \in Sessions : WrittenBy(MergedView(s), s) # {}
    /\ \E s \in Sessions : FindArchive(snapshots[s]) # "none"

(***************************************************************************)
(* C19: create_filesystem(s) returns a FilesystemInfo that is tracked and  *)
(* whose overlay is mounted, or raises and leaves neither a tracking entry *)
(* nor a directory tree for s; with the overlay capability found missing   *)
(* it raises.                                                              *)
(***************************************************************************)
\* create_filesystem(s) has just returned the value or raised the error.
CreateFilesystemReturned(s, value) ==
    /\ fs_result' = Returned("create_filesystem", s, value)
    /\ \/ num_calls' # num_calls /\ fs_calls' = fs_calls
       \/ \E c \in FsCallers :
              /\ fs_calls[c].op = "create_filesystem"
              /\ fs_calls[c].sid = s
              /\ fs_calls'[c] = NoCall

\* create_filesystem(s) is at its availability check and the capability is
\* missing, by the cached answer or by the probe that has just run.
CapabilityFoundMissing(s) ==
    \/ /\ overlayfs_available = "False"
       /\ num_calls' # num_calls
       /\ ~HasFilesystem(s)
       /\ fs_result' .op = "create_filesystem"
       /\ fs_result' .sid = s
    \/ /\ overlayfs_available = "None"
       /\ overlayfs_available' = "False"
       /\ \E c \in FsCallers : fs_calls[c].op = "create_filesystem" /\ fs_calls[c].sid = s

CreateFilesystemAllOrNothing ==
    [][\A s \in Sessions :
        /\ CreateFilesystemReturned(s, "FilesystemInfo") =>
              /\ HasFilesystem(s)'
              /\ session_dirs'[SessionPaths(s).root].mounted
        /\ CreateFilesystemReturned(s, "RuntimeError") =>
              /\ ~HasFilesystem(s)'
              /\ session_dirs'[SessionPaths(s).root] = NoTree
        /\ CapabilityFoundMissing(s) => CreateFilesystemReturned(s, "RuntimeError")
    ]_vars

(***************************************************************************)
(* C20: restore_filesystem(s) undoes archive_filesystem(s): when it        *)
(* returns, s is tracked, its overlay is mounted and its upper directory   *)
(* holds exactly the files it held at the most recent archive of s.        *)
(***************************************************************************)
\* restore_filesystem(s) has just returned its FilesystemInfo.
RestoreFilesystemReturned(s) ==
    /\ fs_result' = Returned("restore_filesystem", s, "FilesystemInfo")
    /\ \E c \in FsCallers :
           /\ fs_calls[c].op = "restore_filesystem"
           /\ fs_calls[c].sid = s
           /\ fs_calls'[c] = NoCall

RestoreUndoesArchive ==
    [][\A s \in Sessions :
        RestoreFilesystemReturned(s) =>
            /\ HasFilesystem(s)'
            /\ session_dirs'[SessionPaths(s).root].mounted
            /\ session_dirs'[SessionPaths(s).root].upper = last_archived[s]
    ]_vars

(***************************************************************************)
(* C21: the one consumer of an execution's events is yielded the events    *)
(* the executor has put on the queue, in that order, none lost and none    *)
(* twice, and the iteration ends with the first MESSAGE_COMPLETE yielded.  *)
(***************************************************************************)
RealEvents(events) == SelectSeq(events, LAMBDA e : e # Keepalive)

\* The events in the order they were put on the queue.
InQueueOrder(events) == \A i \in 1..Len(events) : events[i].n = i

EventsRelayedInOrder ==
    stream.run # 0 =>
        LET events == RealEvents(stream.yielded)
            queue == runners[stream.run].event_queue
        IN  /\ InQueueOrder(events \o queue)
            /\ Len(events \o queue) = runners[stream.run].queued
            /\ \A i \in 1..(Len(events) - 1) : events[i].type # "message_complete"
            /\ stream.pc = "ended" <=>
                   (events # <<>> /\ events[Len(events)].type = "message_complete")
            /\ stream.pc = "ended" =>
                   stream.yielded[Len(stream.yielded)].type = "message_complete"

\* The consumer has been yielded the start, a reported block, a keepalive and,
\* last, the completion of a failed execution.
StreamEndedAfterCompletion ==
    /\ stream.pc = "ended"
    /\ stream.run # 0
    /\ Len(RealEvents(stream.yielded)) >= 4
    /\ \E i \in 2..(Len(stream.yielded) - 1) : stream.yielded[i] = Keepalive
    /\ \E i \in 1..Len(stream.yielded) : stream.yielded[i].type = "error"

(***************************************************************************)
(* C22: a timeout in iter_events yields a keepalive and nothing else        *)
(* happens: the execution task, the queued events, the persisted status    *)
(* and the ActiveSession entry stay as they are, and the iteration goes on.*)
(***************************************************************************)
KeepaliveYielded == stream' = [stream EXCEPT !.yielded = Append(@, Keepalive)]

TimeoutOnlyYieldsKeepalive ==
    [][KeepaliveYielded =>
          UNCHANGED <<runners, active_sessions, sm_lock, num_sends, sm_result, db_vars,
                      dm_vars, fs_vars, now, req, cleanup>>]_vars

\* A keepalive has been yielded while the execution was running and an event
\* was waiting on the queue.
KeepaliveBesideQueuedEvent ==
    /\ stream.pc = "waiting"
    /\ stream.yielded # <<>>
    /\ stream.yielded[Len(stream.yielded)] = Keepalive
    /\ runners[stream.run].task = "running"
    /\ runners[stream.run].event_queue # <<>>
    /\ IsSessionProcessing(runners[stream.run].sid)

(***************************************************************************)
(* C23: when a cleanup pass has finished, it has gone through every        *)
(* session of its batch: all but those whose destruction failed are        *)
(* ARCHIVED, the last thing the pass does to a session.                    *)
(***************************************************************************)
FailureLeavesBatchGoing ==
    [][PassFinishes =>
          \A s \in cleanup.expired \ cleanup'.failed : status'[s] = "archived"]_vars

\* A pass over two sessions has finished: archiving one of them failed, the
\* other one is destroyed and archived.
PassWentOnAfterFailure ==
    /\ cleanup.pc = "idle"
    /\ \E s \in Sessions :
           /\ cleanup.failed = {s}
           /\ status[s] = "active"
           /\ \E o \in Sessions \ {s} :
                  status[o] = "archived" /\ ~HasDisplay(o) /\ ~HasFilesystem(o)

(***************************************************************************)
(* Properties of the cleanup service's loop.                               *)
(***************************************************************************)
\* C24: while the cleanup service is running, an unexpected error raised
\* during a tick does not end the loop: the loop sleeps and a later tick is
\* eventually attempted, unless stop() is called first; and a loop task ends
\* only once stop() has cleared the running flag.
LoopEndsOnlyByStop ==
    \A i \in LoopTasks :
        (LoopAlive(i) /\ loops'[i].state = "done") => ~service.running

LoopSurvivesErrors ==
    /\ \A i \in LoopTasks :
           (LoopAlive(i) /\ loops[i].failed)
               ~> (loops[i].state = "tick" \/ ~service.running)
    /\ [][LoopEndsOnlyByStop]_vars

\* A running loop whose last tick failed has begun the next tick.
TickAfterFailedTick ==
    \E i \in LoopTasks :
        service.running /\ loops[i].failed /\ loops[i].state = "tick"

\* C25: for any sequence of start() and stop() calls on the cleanup service,
\* each made after the one before has returned, at most one loop task is
\* alive at any time (start() while running creates none, stop() while
\* stopped changes nothing), and once stop() has returned no loop task is
\* left, no task handle is kept and is_running is false.
LoopsAlive == {i \in LoopTasks : LoopAlive(i)}

AtMostOneLoop ==
    /\ Cardinality(LoopsAlive) <= 1
    /\ service.running => LoopsAlive = {service.task}
    /\ (stop_call = NoStop /\ ~service.running) =>
           LoopsAlive = {} /\ service.task = 0

\* The service has been started, stopped and started again: the first loop
\* task is over and the second is at work on a batch.
SecondLoopAtWork ==
    /\ service.running
    /\ loops[1].state = "done"
    /\ loops[2].state = "pass"

(***************************************************************************)
(* Properties of create_session.                                           *)
(***************************************************************************)
\* C26: create_session succeeds even when create_display fails: the call
\* that got no display still returns the session it persisted, with status
\* ACTIVE, and has registered an ActiveSession entry for it; no display is
\* held by the session and none is recorded for it.
CreateSessionEndsWithoutDisplay(q) ==
    /\ req[q].op = "create_session"
    /\ req[q].num = 0
    /\ req'[q] = Idle

CreateSessionToleratesDisplayFailure ==
    [][\A q \in Reqs :
           CreateSessionEndsWithoutDisplay(q) =>
               /\ req[q].loaded = "active"
               /\ status'[req[q].sid] # "none"
               /\ active_sessions'[req[q].sid] = NewActive
               /\ displays'[req[q].sid] = NoDisplay
               /\ session_display'[req[q].sid] = 0]_vars

\* create_session has returned a session whose display could not be created.
SessionCreatedWithoutDisplay ==
    \E s \in Sessions :
        /\ Created(s)
        /\ dm_result = Returned("create_display", s, "RuntimeError")
        /\ status[s] = "active"
        /\ active_sessions[s] = NewActive
        /\ ~HasDisplay(s)

(***************************************************************************)
(* C27.  create_display(s) on a session that holds a display returns the   *)
(* existing DisplayInfo and changes nothing, however many calls are made,  *)
(* one after the other or at once (they take the lock in turn): no         *)
(* creation begins for s, so no number is allocated and no process is      *)
(* started, and the call that returns leaves the tracked displays, the     *)
(* used numbers, the counter, the token file and the lock as they were.    *)
(***************************************************************************)
\* create_display(s) has just returned.
CreateDisplayReturned(s) ==
    /\ dm_result' # dm_result
    /\ dm_result' .op = "create_display"
    /\ dm_result' .sid = s

CreateDisplayIdempotent ==
    [][\A s \in Sessions :
          HasDisplay(s) =>
              /\ ~(dm_lock' .op = "create" /\ dm_lock' .sid = s)
              /\ CreateDisplayReturned(s) =>
                     /\ dm_result' .value = "DisplayInfo"
                     /\ UNCHANGED <<displays, used_display_nums, next_display_num,
                                    token_file, dm_lock>>]_vars

\* The last call to return was create_display on a session whose display is
\* older than the newest one: the call found the display there.
ExistingDisplayReturned ==
    \E s \in Sessions, t \in Sessions :
        /\ dm_lock = DmFree
        /\ dm_result = Returned("create_display", s, "DisplayInfo")
        /\ HasDisplay(s) /\ HasDisplay(t)
        /\ displays[s].display_num < displays[t].display_num
        /\ next_display_num = displays[t].display_num + 1

(***************************************************************************)
(* C28.  destroy_display signals the processes of the display in the order *)
(* VNC server, desktop process, framebuffer; each process is sent SIGTERM  *)
(* first, and SIGKILL only after the polling window and only if it is      *)
(* still alive then; a process that is already dead does not stop the      *)
(* call, which goes on to the processes that remain.                       *)
(***************************************************************************)
PlaceInKillOrder(p) == CHOOSE i \in DOMAIN KillOrder : KillOrder[i] = p

\* The step delivers the signal to the process.
SignalSent(p, sig) == teardown' .signals = Append(teardown.signals, <<p, sig>>)

SentBefore(p, sig) == \E k \in DOMAIN teardown.signals : teardown.signals[k] = <<p, sig>>

GracefulTeardownInOrder ==
    [][/\ \A p \in Processes, sig \in {"SIGTERM", "SIGKILL"} :
              SignalSent(p, sig) =>
                  /\ \A k \in DOMAIN teardown.signals :
                         PlaceInKillOrder(teardown.signals[k][1]) <= PlaceInKillOrder(p)
                  /\ sig = "SIGTERM" => ~SentBefore(p, "SIGTERM")
                  /\ sig = "SIGKILL" =>
                         /\ SentBefore(p, "SIGTERM")
                         /\ teardown.polls = PollAttempts
                         /\ procs[dm_lock.sid][p] = "running"
       /\ (/\ teardown.idx \in DOMAIN KillOrder
           /\ procs[dm_lock.sid][Victim] \in {"exited", "reaped"}
           /\ teardown' # teardown)
              => dm_lock' = dm_lock /\ teardown' .idx >= teardown.idx]_vars

(***************************************************************************)
(* C29.  After an execution task has ended, by success, failure or         *)
(* cancellation, its completion handler eventually runs its finally block, *)
(* whether the results were stored or not; and that block leaves the       *)
(* session's ActiveSession entry, if there is one, with no runner handle   *)
(* and the processing flag cleared.                                        *)
(***************************************************************************)
TaskEnded(r) == runners[r].task \in {"done", "cancelled"}

HandlerFinallyRuns(r) == runners[r].handler = "finally" /\ runners' [r].handler = "done"

EntryCleared(s) ==
    active_sessions[s].present =>
        active_sessions[s].runner = 0 /\ ~active_sessions[s].is_processing

CompletionClearsEntry ==
    /\ \A r \in Runs : TaskEnded(r) ~> (runners[r].handler = "done")
    /\ [][\A r \in Runs : HandlerFinallyRuns(r) => EntryCleared(runners[r].sid)']_vars

\* A handler that could not store the results has finished, and the entry of
\* its session is there, cleared.
ClearedAfterFailedPersist ==
    \E r \in Runs :
        /\ runners[r].handler = "done"
        /\ runners[r].persist_failed
        /\ active_sessions[runners[r].sid].present
        /\ EntryCleared(runners[r].sid)

(***************************************************************************)
(* C30.  A session whose persisted status is ARCHIVED, destroyed by        *)
(* delete_session or by a pass of the cleanup service, has no              *)
(* ActiveSession entry in the Session Manager.                             *)
(***************************************************************************)
ArchivedHasNoEntry ==
    \A s \in Sessions : status[s] = "archived" => ~active_sessions[s].present

(***************************************************************************)
(* C31.  Every operation of the Filesystem Manager that changes its        *)
(* tracking or mount state runs under the manager's lock: a call of        *)
(* create_filesystem, destroy_filesystem, archive_filesystem or            *)
(* restore_filesystem that is in progress holds the lock, so no two of     *)
(* them are in progress at once.                                           *)
(***************************************************************************)
FilesystemCallInProgress(c) == fs_calls[c] # NoCall

FilesystemOperationsUnderLock ==
    \A c \in FsCallers : FilesystemCallInProgress(c) => fs_lock = c

(***************************************************************************)
(* C32.  When the completion handler of an accepted message stores the     *)
(* results of its execution, the persisted history of the session becomes  *)
(* the rows up to and including the user message of that send (the history *)
(* before the send, then the user message once), followed by exactly the   *)
(* messages the execution produced after that user message, in order.      *)
(***************************************************************************)
PlacesOf(ms, m) == {i \in DOMAIN ms : ms[i] = m}

Least(S) == CHOOSE i \in S : \A j \in S : i <= j

Greatest(S) == CHOOSE i \in S : \A j \in S : j <= i

\* The stored rows up to the user message of run r.
UpToSend(ms, r) == SubSeq(ms, 1, Least(PlacesOf(ms, UserMessage(r))))

\* What the sampling loop of run r added behind the user message it started from.
ProducedBy(final, r) ==
    SubSeq(final, Greatest(PlacesOf(final, UserMessage(r))) + 1, Len(final))

HandlerStores(r) == runners[r].handler = "await" /\ runners'[r].handler = "set_status"

PersistedHistoryExact ==
    [][\A r \in Runs :
          HandlerStores(r) =>
              messages'[runners[r].sid] =
                  UpToSend(messages[runners[r].sid], r)
                      \o ProducedBy(runners[r].messages, r)]_vars

(***************************************************************************)
(* A restart of the server and DisplayManager.recover_active_sessions      *)
(* (display_manager.py:364-415).  What the managers hold in memory starts  *)
(* afresh (display_manager.py:120-139); the store, the token file (which   *)
(* _init_token_file creates only when it is missing, lines 143-151) and    *)
(* the directories stay.  Recovery runs at startup, before requests are    *)
(* served.                                                                 *)
(***************************************************************************)
\* Restarts of the server in one run of the model.
MaxRestarts == 1

beside_recovery == <<db_vars, now, sm_vars, sm_result, req, cleanup, fs_vars, stream,
                     svc_vars, procs, teardown, orphans, environ>>

\* No startup is in progress.
Serving == recovery.pc \in {"none", "done"}

Restart ==
    /\ recovery.restarts < MaxRestarts
    /\ Serving
    /\ \A q \in Reqs : req[q] = Idle
    /\ dm_lock = DmFree
    /\ cleanup = NoCleanup
    /\ \A c \in DOMAIN fs_calls : fs_calls[c] = NoCall
    /\ \A r \in Runs : runners[r].task # "running"
    /\ displays' = [s \in Sessions |-> NoDisplay]
    /\ used_display_nums' = {}
    /\ next_display_num' = 1
    /\ dm_result' = NoResult
    /\ active_sessions' = [s \in Sessions |-> NoActive]
    /\ runners' = [r \in Runs |-> NoRunner]
    /\ filesystems' = [s \in Sessions |-> NoFilesystem]
    /\ overlayfs_available' = "None"
    /\ fs_result' = NoResult
    /\ sm_result' = NoResult
    /\ stream' = NoStream
    /\ service' = NotStarted
    /\ loops' = [i \in LoopTasks |-> NoLoop]
    /\ environ' = 0
    /\ recovery' = [pc |-> "booted", rows |-> <<>>, restarts |-> recovery.restarts + 1]
    /\ UNCHANGED <<dm_lock, token_file, db_vars, now, sm_lock, num_sends, req, cleanup,
                   fs_lock, session_dirs, snapshots, fs_calls, num_calls, num_writes,
                   last_archived, stop_call, procs, teardown, orphans>>

\* Enum(SessionStatus) persists the name of the member (db/models.py:96-99):
\* the row of a session whose status is SessionStatus.ACTIVE holds 'ACTIVE'.
StatusNames == [active |-> "ACTIVE", processing |-> "PROCESSING",
                completed |-> "COMPLETED", error |-> "ERROR", archived |-> "ARCHIVED"]

StoredStatus(st) == IF st \in DOMAIN StatusNames THEN StatusNames[st] ELSE st

\* `status = 'active'` in the raw query of lines 384-390.  The literal is in
\* lower case: it equals the stored name where the store compares strings
\* without regard to case (MySQL's default collations), and does not where
\* it compares them as they are (SQLite, the default store of config.py:68).
SqlEquals(stored, literal, folds) ==
    IF folds THEN StoredStatus(stored) = StoredStatus(literal) ELSE stored = literal

\* ORDER BY created_at DESC: sessions are created in the order of SessionOrder.
NewestFirst ==
    [i \in DOMAIN SessionOrder |-> SessionOrder[Len(SessionOrder) + 1 - i]]

\* The rows the query of lines 384-392 returns.
ActiveRowsWithDisplay(folds) ==
    SelectSeq(NewestFirst,
              LAMBDA s : /\ status[s] # "none"
                         /\ SqlEquals(StoredStatus(status[s]), "active", folds)
                         /\ session_display[s] # 0)

\* Lines 398-408: the next row, or the end of the loop.
RowsLeft(rows) == [recovery EXCEPT !.rows = rows,
                                   !.pc = IF rows = <<>> THEN "done" ELSE "create"]

\* Lines 380-396
RecoverBegin(folds) ==
    /\ recovery.pc = "booted"
    /\ recovery' = RowsLeft(ActiveRowsWithDisplay(folds))
    /\ UNCHANGED <<dm_vars, beside_recovery>>

\* Line 404: create_display(session_id) for the row at hand.  Nothing is
\* tracked for it yet, the manager having just been constructed.
RecoverCreateDisplayBegin ==
    /\ recovery.pc = "create"
    /\ CreateDisplayBegin(Head(recovery.rows), "recover")
    /\ recovery' = [recovery EXCEPT !.pc = "display_wait"]
    /\ UNCHANGED beside_recovery

\* Lines 405-406
RecoverCreateDisplayOk ==
    /\ dm_lock.caller = "recover"
    /\ CreateDisplayOk
    /\ recovery' = RowsLeft(Tail(recovery.rows))
    /\ UNCHANGED beside_recovery

\* Lines 407-408: the failure is logged and the loop goes on.
RecoverCreateDisplayFail ==
    /\ dm_lock.caller = "recover"
    /\ CreateDisplayFail
    /\ recovery' = RowsLeft(Tail(recovery.rows))
    /\ UNCHANGED beside_recovery

RecoverySteps ==
    \/ \E folds \in BOOLEAN : RecoverBegin(folds)
    \/ RecoverCreateDisplayBegin
    \/ RecoverCreateDisplayOk
    \/ RecoverCreateDisplayFail

\* Sessions are created, expire and are archived; the server is restarted and
\* recovers its displays before it serves requests again.
NextRecovery ==
    \/ Serving /\ OneCreateSteps
    \/ Serving /\ SettledTick
    \/ Serving /\ PassSteps
    \/ Restart
    \/ RecoverySteps

SpecRecovery == Init /\ [][NextRecovery]_vars

(***************************************************************************)
(* C33.  Whenever a session holds a display while the server serves        *)
(* requests and no create_session of that session is in progress, after    *)
(* create_session and after recover_active_sessions on a restarted server  *)
(* alike, the display number and the VNC port stored on the session's row  *)
(* are those of its DisplayInfo.                                           *)
(***************************************************************************)
BeingCreated(s) == \E q \in Reqs : req[q].op = "create_session" /\ req[q].sid = s

max_displays == 1

DisplaysWithinLimit ==
    max_displays > 0 =>
        Cardinality({s \in Sessions : HasDisplay(s)}) <= max_displays

(***************************************************************************)
(* Executions of several sessions side by side: the sessions of a batch    *)
(* are created with their displays, and up to MaxRuns messages are sent    *)
(* to them, one request at a time, and executed.                           *)
(***************************************************************************)
SendsToBatch ==
    \/ \E s \in Sessions, via \in {"api", "service"} : SendLoad("q1", s, via, MaxRuns)
    \/ SendConflict("q1")
    \/ SendReject("q1")
    \/ SendAddMessage("q1")
    \/ SendUpdateActivity("q1")
    \/ SendSetProcessing("q1")
    \/ SendLoadHistory("q1")
    \/ SendRegister("q1")
    \/ SendFail("q1")
    \/ ReqDone("q1")

NextEnviron ==
    \/ OneCreateSteps
    \/ SendsToBatch
    \/ ExecutionSteps

SpecEnviron == Init /\ [][NextEnviron]_vars

(***************************************************************************)
(* C35.  While the execution of a session that was given a display is      *)
(* running, the DISPLAY value in effect in the server, which its tools     *)
(* inherit, is that session's own display, whatever other executions       *)
(* start or finish meanwhile.                                              *)
(***************************************************************************)
ExecutionSeesOwnDisplay ==
    \A r \in Runs :
        (runners[r].task = "running" /\ runners[r].display_env # 0) =>
            environ = runners[r].display_env

(***************************************************************************)
(* C36.  The in-flight guard of a session is cleared only on behalf of the *)
(* execution it refers to: while an execution task of a session is         *)
(* running, the session's entry is there and reports is_processing, so     *)
(* is_session_processing(s) is false only when no task of s is running.    *)
(***************************************************************************)
GuardCoversRunningTask ==
    \A r \in Runs :
        runners[r].task = "running" => IsSessionProcessing(runners[r].sid)

(***************************************************************************)
(* C37.  Every execution task that ends, by success, failure or            *)
(* cancellation, has put exactly one MESSAGE_COMPLETE event on its queue,  *)
(* and that event is the last of the queue when the task ends, so that     *)
(* every consumer of iter_events comes to its end.                         *)
(***************************************************************************)
TaskHasEnded(runner) == runner.task \in {"done", "cancelled"}

CompletionEvents(queue) == {i \in DOMAIN queue : queue[i].type = "message_complete"}

EndsWithOneCompletion(queue) ==
    /\ Cardinality(CompletionEvents(queue)) = 1
    /\ queue[Len(queue)].type = "message_complete"

EveryEndedTaskCompletes ==
    [][\A r \in Runs :
          (~TaskHasEnded(runners[r]) /\ TaskHasEnded(runners'[r])) =>
              EndsWithOneCompletion(runners'[r].event_queue)]_vars

(***************************************************************************)
(* C38.  Whenever no Display Manager call is in progress, every live child *)
(* process the Display Manager started is recorded in the DisplayInfo of a *)
(* session that holds a display: none is left behind by a create_display   *)
(* call that failed.                                                       *)
(***************************************************************************)
LiveChildrenRecorded ==
    dm_lock = DmFree =>
        /\ orphans = {}
        /\ \A s \in Sessions, p \in Processes :
               procs[s][p] = "running" => HasDisplay(s)

(***************************************************************************)
(* C39.  After a restart of the server (allocator state lost, token file   *)
(* kept) followed by recover_active_sessions, the token file holds at most *)
(* one line per session id, and the line of every session that holds a     *)
(* display names the VNC port of the display it holds.                     *)
(***************************************************************************)
Recovered == recovery.pc = "done"

UsedNumsAreHeldNums ==
    dm_lock = DmFree =>
        /\ used_display_nums = HeldNums
        /\ \A n \in used_display_nums : n < next_display_num

AllocatorStateConsistent ==
    [][/\ UsedNumsAreHeldNums
       /\ UsedNumsAreHeldNums'
       /\ next_display_num' >= next_display_num]_vars

HeldAfterRelease ==
    /\ dm_lock = DmFree
    /\ 1 \notin used_display_nums
    /\ \E s \in Sessions : HasDisplay(s) /\ displays[s].display_num > 1
    /\ dm_result.op = "create_display"

====
